---- MODULE Spec2Model ----
(***************************************************************************)
(* OrderedQueueWithRetry (src/queues/ordered-queue-with-retry.js) on top   *)
(* of a BullMQ queue: order tags, retry resubmission, the worker callback  *)
(* and the delayed-job backend it drives.                                  *)
(*                                                                         *)
(* A job id is a sequence of naturals: <<n>> is the id BullMQ generates    *)
(* from its counter, Append(id, t) is the custom id `retry_${id}_${t}`.    *)
(* An asynchronous method is one action per stretch of code between two    *)
(* awaits; the backend's answer to queue.add is taken together with the    *)
(* continuation of the method that awaits it.                              *)
(* Time is abstract: a job added with a delay > 0 is held as delayed and   *)
(* falls due at some later moment (Promote).  The backend keeps every job  *)
(* (removeOnComplete: 100 and removeOnFail: 50 lie beyond the bounds).     *)
(*                                                                         *)
(* The monitoring and control methods (getOrderedJobCounts, getJob,        *)
(* getJobs, pause, resume, cleanupOrderedJobs, close) are called one at a  *)
(* time; api holds the call in flight with what the backend has answered   *)
(* so far, then its outcome.  Each specification is the scheduler with one *)
(* kind of caller: Spec and SpecAwaited add jobs and reconfigure retries,  *)
(* SpecRepeatedStart repeats start(), SpecGuarded calls the guarded        *)
(* methods and cleanupOrderedJobs around initialize(), SpecOptions passes  *)
(* options of its own, SpecPayload passes payloads with keys named like    *)
(* the metadata, SpecCounts and SpecCleanup monitor a running scheduler,   *)
(* SpecCleanupNoted is a caller that notes what each cleanup call left,    *)
(* SpecPause pauses and resumes (with fairness, for the liveness of        *)
(* delivery), SpecClose closes a scheduler started once or more, and       *)
(* SpecScenario is the six-task example of src/processors/dataProcessor.js.*)
(*                                                                         *)
(* A processor's result and the errors are values: the backend keeps the   *)
(* result of a completed job as returnvalue and the error a failed job was *)
(* reported with as failedReason.                                          *)
(*                                                                         *)
(* A delivered job carries the lock of the worker it was handed to.        *)
(* SpecStalled is a backend that puts a job whose lock has lapsed back on  *)
(* the wait list (Stall) while its handler still runs; SpecReregister      *)
(* registers a name again, SpecRestart builds the scheduler anew on the    *)
(* queue it left, and SpecAfterClose goes on calling a closed scheduler.   *)
(*                                                                         *)
(* Two more classes stand beside it.  simulation is the in-memory          *)
(* OrderedQueueSimulation (src/examples/ordered-queue-simulation.js): its  *)
(* sorted queue, its processNext loop and the retries it keeps in timer    *)
(* closures (SpecSimulation, and SpecSimulationFair for the progress of    *)
(* the loop).  jobWorker is an OrderedJobWorker                            *)
(* (src/workers/ordered-worker.js) serving the queue the scheduler adds    *)
(* jobs to (SpecJobWorker).                                                *)
(***************************************************************************)
EXTENDS Integers, Sequences, FiniteSets, TLC

\* ------------------------------------------------------------------ bounds
MaxAddJobs == 2        \* addJob calls per behaviour
MaxStarts == 1         \* start() calls per behaviour
MaxStartsRepeated == 2 \* start() calls per behaviour of a caller that repeats it
MaxCleanups == 2       \* cleanupOrderedJobs calls per behaviour of a caller that notes them
MaxSimAddJobs == 3     \* addJob calls on the simulation per behaviour

\* ------------------------------------------------------- program constants
DefaultMaxRetries == 3
DefaultRetryDelay == 60000
DemoRetryDelay == 5000

\* --------------------------------------------------------- input domains
JobNames == {"task"}
Handlers == {"h1"}
Payloads == {[message |-> "m1"]}
\* the arguments setRetryConfig is called with
RetryConfigs == {[maxRetries |-> 0, retryDelay |-> DemoRetryDelay],
                 [maxRetries |-> 1, retryDelay |-> DemoRetryDelay]}
NoOptions == [k \in {} |-> 0]
OptionChoices == {NoOptions}
\* the options of a caller that asks the backend for retries of its own (TRUE stands
\* for a backoff setting, FALSE for backoff: false)
CallerOptions == {NoOptions, [attempts |-> 2, backoff |-> TRUE]}
\* the processors of a caller that registers a name again
ReplacingHandlers == {"h1", "h2"}
\* the payloads of a caller whose data has keys named like the metadata
MetadataPayloads == {[message |-> "m1"],
                     [message |-> "m2", _order |-> 7, _retryCount |-> 2, _maxRetries |-> 9]}
Timestamps == {0}       \* the values Date.now() returns
LaterTimestamps == {0, 1}   \* and those it returns to a handler that ran long

NoJob == << >>
NoReq == [name |-> "", data |-> NoOptions, opts |-> NoOptions]
NoValue == [k \in {} |-> 0]
NoError == << >>      \* an error is the sequence of the parts of its message
\* no monitoring or control method has been called yet
NoCall == [op |-> "none", at |-> "returned", error |-> "", value |-> NoValue]
\* the caller has not called cleanupOrderedJobs yet
NoCleanup == [calls |-> 0, jobsAtCall |-> NoValue, jobs |-> NoValue, index |-> NoValue,
              jobsBefore |-> NoValue, indexBefore |-> NoValue]

\* new OrderedQueueSimulation(): the fields its constructor sets; timers are the
\* retries held by a pending setTimeout, job and at the position of processNext,
\* invocations the number of processor calls that have not settled
NewSimulation ==
  [queue |-> << >>, processingOrder |-> NoValue, currentOrder |-> 0,
   maxRetries |-> DefaultMaxRetries, retryDelay |-> DemoRetryDelay,
   isProcessing |-> FALSE, processors |-> NoValue,
   timers |-> {}, job |-> NoValue, at |-> "idle", invocations |-> 0]

\* new OrderedJobWorker(queueName): the fields its constructor sets; job and at are
\* the position of its Worker's callback, stopping is set while stop() awaits
\* worker.close()
NewJobWorker ==
  [worker |-> "null", processors |-> NoValue, isRunning |-> FALSE,
   isProcessing |-> FALSE, currentJob |-> NoValue,
   job |-> NoJob, handler |-> "", at |-> "idle", stopping |-> FALSE]

VARIABLES
  isInitialized,    \* this.isInitialized
  queue,            \* this.queue: "null" until initialize() creates the Queue
  queueScheduler,   \* this.scheduler: "null" until initialize() creates it
  processors,       \* this.processors: job name -> handler
  maxRetries,       \* this.maxRetries
  retryDelay,       \* this.retryDelay
  currentOrder,     \* this.currentOrder
  processingOrder,  \* this.processingOrder: job id -> order
  calls,            \* the addJob calls in call order, each with its arguments, its
                    \* position and the retryDelay in force when it was made
  workers,          \* the Worker objects start() created, each with its position
  jobs,             \* backend: job id -> job
  waitList,         \* backend: the wait list, head delivered first
  jobCounter,       \* backend: the id counter
  paused,           \* backend: the queue is paused (queue.pause / queue.resume)
  api,              \* the call of a monitoring or control method in flight, or the
                    \* outcome of the last one
  lastCleanup,      \* what the caller noted of its cleanupOrderedJobs calls
  simulation,       \* the OrderedQueueSimulation object, its timers and its processNext
  jobWorker         \* the OrderedJobWorker object and its Worker's callback

vars == <<isInitialized, queue, queueScheduler, processors, maxRetries, retryDelay,
          currentOrder, processingOrder, calls, workers, jobs, waitList, jobCounter,
          paused, api, lastCleanup, simulation, jobWorker>>

scheduler == <<isInitialized, queue, queueScheduler, processors, maxRetries, retryDelay,
               currentOrder, processingOrder>>
backend == <<jobs, waitList, jobCounter, paused>>
\* the objects of the repository's other classes
others == <<simulation, jobWorker>>

\* ------------------------------------------------------------- JavaScript
\* a || b on numbers: 0 is falsy
OrElse(a, b) == IF a = 0 THEN b ELSE a

\* { ...spread, k: v, ... }: the explicit keys win over the spread ones
Spread(explicit, spread) == explicit @@ spread

OptDelay(opts) == IF "delay" \in DOMAIN opts THEN opts.delay ELSE 0

\* ---------------------------------------------------------------- backend
\* the id queue.add gives the job: the custom jobId, else the counter's value
JobIdFor(opts) ==
  IF "jobId" \in DOMAIN opts THEN opts.jobId ELSE <<jobCounter + 1>>

\* queue.add executed by the backend: a job with a known id is left alone
BackendAdd(name, data, opts) ==
  LET id == JobIdFor(opts) IN
  /\ jobCounter' = IF "jobId" \in DOMAIN opts THEN jobCounter ELSE jobCounter + 1
  /\ IF id \in DOMAIN jobs
       THEN UNCHANGED <<jobs, waitList>>
       ELSE /\ jobs' = jobs @@ (id :> [id |-> id, name |-> name, data |-> data,
                                       opts |-> opts, attemptsMade |-> 0,
                                       lock |-> 0, stalledCounter |-> 0,
                                       returnvalue |-> NoValue, failedReason |-> NoError,
                                       status |-> IF OptDelay(opts) > 0
                                                    THEN "delayed" ELSE "waiting"])
            /\ waitList' = IF OptDelay(opts) > 0 THEN waitList
                                               ELSE Append(waitList, id)

SetStatus(id, s) == jobs' = [jobs EXCEPT ![id].status = s]

Delayed == {id \in DOMAIN jobs : jobs[id].status = "delayed"}

\* ------------------------------------------------------------- scheduler
Init ==
  /\ isInitialized = FALSE
  /\ queue = "null"
  /\ queueScheduler = "null"
  /\ processors = [n \in {} |-> "h1"]
  /\ maxRetries = DefaultMaxRetries
  /\ retryDelay = DefaultRetryDelay
  /\ currentOrder = 0
  /\ processingOrder = [i \in {} |-> 0]
  /\ calls = << >>
  /\ workers = << >>
  /\ jobs = [i \in {} |-> 0]
  /\ waitList = << >>
  /\ jobCounter = 0
  /\ paused = FALSE
  /\ api = NoCall
  /\ lastCleanup = NoCleanup
  /\ simulation = NewSimulation
  /\ jobWorker = NewJobWorker

initialize ==
  /\ ~isInitialized
  /\ queue' = "open"
  /\ queueScheduler' = "open"
  /\ isInitialized' = TRUE
  /\ UNCHANGED <<processors, maxRetries, retryDelay, currentOrder, processingOrder,
                 calls, api, lastCleanup, others, workers, backend>>

registerProcessor(name, h) ==
  /\ processors' = (name :> h) @@ processors
  /\ UNCHANGED <<isInitialized, queue, queueScheduler, maxRetries, retryDelay,
                 currentOrder, processingOrder, calls, api, lastCleanup, others, workers, backend>>

setRetryConfig(m, d) ==
  /\ maxRetries' = m
  /\ retryDelay' = d
  /\ UNCHANGED <<isInitialized, queue, queueScheduler, processors, currentOrder,
                 processingOrder, calls, api, lastCleanup, others, workers, backend>>

\* the data object addJob hands to queue.add
AddJobData(data, order) ==
  Spread([_order |-> order, _originalData |-> data, _retryCount |-> 0,
          _maxRetries |-> maxRetries], data)

AddJobOptsCallerWins(options) == Spread(options, [attempts |-> 1, backoff |-> FALSE])

AddJobOpts(options) == Spread([attempts |-> 1, backoff |-> FALSE], options)

TakeOrderPreIncrement == [order |-> currentOrder + 1, next |-> currentOrder + 1]

TakeOrderNoIncrement == [order |-> currentOrder, next |-> currentOrder]

\* the order addJob takes and the counter it leaves
TakeOrder == [order |-> currentOrder, next |-> currentOrder + 1]

Pending == {k \in DOMAIN calls : calls[k].state = "pending"}

\* addJob up to its await: the order is taken and queue.add is sent
AddJobSent(name, data, options) ==
  /\ isInitialized
  /\ currentOrder' = TakeOrder.next
  /\ calls' = Append(calls, [name |-> name, payload |-> data, order |-> TakeOrder.order,
                             data |-> AddJobData(data, TakeOrder.order),
                             options |-> options, opts |-> AddJobOpts(options),
                             state |-> "pending", id |-> NoJob,
                             retryDelayAtCall |-> retryDelay])
  /\ UNCHANGED <<isInitialized, queue, queueScheduler, processors, maxRetries, retryDelay,
                 processingOrder, workers, backend, api, lastCleanup, others>>

addJob(name, data, options) ==
  /\ Len(calls) < MaxAddJobs
  /\ AddJobSent(name, data, options)

\* the backend executes the queue.add of call k and addJob resumes after its await:
\* the Order Index entry, then the job is returned
AddJobAccepted(k) ==
  /\ k \in Pending
  /\ queue = "open"
  /\ BackendAdd(calls[k].name, calls[k].data, calls[k].opts)
  /\ processingOrder' = (JobIdFor(calls[k].opts) :> calls[k].order) @@ processingOrder
  /\ calls' = [calls EXCEPT ![k].state = "returned", ![k].id = JobIdFor(calls[k].opts)]
  /\ UNCHANGED <<isInitialized, queue, queueScheduler, processors, maxRetries, retryDelay,
                 currentOrder, workers, paused, api, lastCleanup, others>>

AddJobRejectedIndexed(k) ==
  /\ k \in Pending
  /\ calls' = [calls EXCEPT ![k].state = "rejected"]
  /\ processingOrder' = (JobIdFor(calls[k].opts) :> calls[k].order) @@ processingOrder
  /\ UNCHANGED <<isInitialized, queue, queueScheduler, processors, maxRetries, retryDelay,
                 currentOrder, workers, backend, api, lastCleanup, others>>

\* the backend rejects the queue.add of call k: addJob logs and rethrows
AddJobRejected(k) ==
  /\ k \in Pending
  /\ calls' = [calls EXCEPT ![k].state = "rejected"]
  /\ UNCHANGED <<scheduler, workers, backend, api, lastCleanup, others>>

\* start() past its guard: a new Worker on the queue, whatever Workers earlier
\* calls created; this.worker is the last one created
StartWorker ==
  /\ isInitialized
  /\ workers' = Append(workers, [phase |-> "idle", job |-> NoJob, handler |-> "",
                                 args |-> NoValue, error |-> NoError, req |-> NoReq,
                                 retryId |-> NoJob, closing |-> FALSE])
  /\ UNCHANGED <<scheduler, calls, api, lastCleanup, others, backend>>

start ==
  /\ Len(workers) < MaxStarts
  /\ StartWorker

\* start() by a caller that may call it again on a started scheduler
StartRepeated ==
  /\ Len(workers) < MaxStartsRepeated
  /\ StartWorker

RetryDataNewOrder(job, retryCount, budget) ==
  Spread([_order |-> currentOrder,
          _originalData |-> job.data._originalData,
          _retryCount |-> retryCount + 1,
          _maxRetries |-> budget,
          _previousJobId |-> job.id], job.data._originalData)

RetryDataCurrentBudget(job, retryCount, budget) ==
  Spread([_order |-> job.data._order,
          _originalData |-> job.data._originalData,
          _retryCount |-> retryCount + 1,
          _maxRetries |-> maxRetries,
          _previousJobId |-> job.id], job.data._originalData)

\* the data object handleJobFailure hands to queue.add
RetryData(job, retryCount, budget) ==
  Spread([_order |-> job.data._order,
          _originalData |-> job.data._originalData,
          _retryCount |-> retryCount + 1,
          _maxRetries |-> budget,
          _previousJobId |-> job.id], job.data._originalData)

RetryOptsDefaultDelay(job, t) ==
  [delay |-> DefaultRetryDelay, attempts |-> 1, backoff |-> FALSE,
   jobId |-> Append(job.id, t)]

RetryOpts(job, t) ==
  [delay |-> retryDelay, attempts |-> 1, backoff |-> FALSE, jobId |-> Append(job.id, t)]

\* the retry budget handleJobFailure reads from the failed job
RetryBudget(job) == OrElse(job.data._maxRetries, maxRetries)

RetryCount(job) == OrElse(job.data._retryCount, 0)

\* handleJobFailure decides: no retry once the budget is used up
Exhausted(job) == RetryCount(job) >= RetryBudget(job)

\* handleJobFailure up to its await (or to its early return), as worker w's position
handleJobFailure(w, job, t) ==
  IF Exhausted(job)
    THEN [workers[w] EXCEPT !.phase = "rethrow", !.job = job.id, !.handler = ""]
    ELSE [workers[w] EXCEPT !.phase = "retryAdd", !.job = job.id, !.handler = "",
                            !.req = [name |-> job.name,
                                     data |-> RetryData(job, RetryCount(job),
                                                        RetryBudget(job)),
                                     opts |-> RetryOpts(job, t)]]

NoProcessorTerminal(w, job, t) ==
  [workers[w] EXCEPT !.phase = "rethrow", !.job = job.id, !.handler = ""]

\* the callback finds no processor for the job's name: the throw is inside the try
\* block, so the catch block hands the job to handleJobFailure
NoProcessor(w, job, t) == handleJobFailure(w, job, t)

DeliverableInOrder ==
  /\ ~paused
  /\ waitList # << >>
  /\ \A id \in DOMAIN jobs :
       jobs[id].status = "delayed" =>
         jobs[id].data._order >= jobs[Head(waitList)].data._order

DeliverableWhilePaused == waitList # << >>

\* the backend has a job to hand to an idle worker: any job on the wait list,
\* whatever is delayed
Deliverable == ~paused /\ waitList # << >>

NextJobNewest == waitList[Len(waitList)]

\* the job it hands over
NextJob == Head(waitList)

HandlerArgsData(job) == job.data

\* the first argument of processor(data._originalData, job)
HandlerArgs(job) == job.data._originalData

\* the error the callback throws when the job's name has no processor
NoProcessorError(name) == <<"No processor registered for job type: ", name>>

ProcessorForFirst(name) == "h1"

\* this.processors.get(name): the processor the registry holds for the name now
ProcessorFor(name) == processors[name]

\* the backend delivers a job to worker w and the callback runs up to its first await:
\* without a processor the callback throws and handleJobFailure starts at once
Deliver(w, t) ==
  /\ w \in DOMAIN workers
  /\ workers[w].phase = "idle"
  /\ ~workers[w].closing
  /\ Deliverable
  /\ LET id == NextJob IN
     /\ waitList' = SelectSeq(waitList, LAMBDA x : x # id)
     /\ jobs' = [jobs EXCEPT ![id].status = "active", ![id].lock = w]
     /\ workers' = [workers EXCEPT ![w] =
          IF jobs[id].name \in DOMAIN processors
            THEN [workers[w] EXCEPT !.phase = "running", !.job = id,
                                    !.handler = ProcessorFor(jobs[id].name),
                                    !.args = HandlerArgs(jobs[id])]
            ELSE [NoProcessor(w, jobs[id], t) EXCEPT
                    !.error = NoProcessorError(jobs[id].name)]]
  /\ UNCHANGED <<scheduler, calls, api, lastCleanup, others, jobCounter, paused>>

\* worker w still holds the lock of the job it was handed: the backend takes the
\* outcome of a delivery only from the holder of the job's lock
HoldsLock(w) == jobs[workers[w].job].lock = w

\* what a processor resolves with: a value of its own making
ProcessorResult(h, args) == [success |-> TRUE, by |-> h, processed |-> args]

CompletionValueNone(result) == NoValue

\* the value the callback returns to the backend: return result
CompletionValue(result) == result

\* the processor resolves: the callback returns its result and the backend completes
\* the job with it
HandlerSuccess(w) ==
  /\ w \in DOMAIN workers
  /\ workers[w].phase = "running"
  /\ IF HoldsLock(w)
       THEN jobs' = [jobs EXCEPT
              ![workers[w].job].status = "completed",
              ![workers[w].job].lock = 0,
              ![workers[w].job].returnvalue =
                 CompletionValue(ProcessorResult(workers[w].handler, workers[w].args))]
       ELSE UNCHANGED jobs
  /\ workers' = [workers EXCEPT ![w].phase = "idle", ![w].job = NoJob, ![w].handler = "",
                                ![w].args = NoValue]
  /\ UNCHANGED <<scheduler, calls, api, lastCleanup, others, waitList, jobCounter, paused>>

\* the error a processor rejects with
HandlerError == <<"handler error">>

\* the processor rejects: the catch block keeps the error and calls handleJobFailure
HandlerFail(w, t) ==
  /\ w \in DOMAIN workers
  /\ workers[w].phase = "running"
  /\ workers' = [workers EXCEPT ![w] =
       [handleJobFailure(w, jobs[workers[w].job], t) EXCEPT !.error = HandlerError,
                                                            !.args = NoValue]]
  /\ UNCHANGED <<scheduler, calls, api, lastCleanup, others, backend>>

\* the Order Index after handleJobFailure's await
RetryIndexed(w) ==
  (JobIdFor(workers[w].req.opts) :> jobs[workers[w].job].data._order) @@ processingOrder

\* the backend executes the queue.add of handleJobFailure, which resumes after its
\* await: the Order Index entry, then it returns
RetryAccepted(w) ==
  /\ w \in DOMAIN workers
  /\ workers[w].phase = "retryAdd"
  /\ queue = "open"
  /\ BackendAdd(workers[w].req.name, workers[w].req.data, workers[w].req.opts)
  /\ processingOrder' = RetryIndexed(w)
  /\ workers' = [workers EXCEPT ![w].phase = "retryAdded",
                                ![w].retryId = JobIdFor(workers[w].req.opts),
                                ![w].req = NoReq]
  /\ UNCHANGED <<isInitialized, queue, queueScheduler, processors, maxRetries, retryDelay,
                 currentOrder, calls, paused, api, lastCleanup, others>>

\* the error queue.add rejects with: retryError in handleJobFailure
RetryError == <<"backend error">>

\* the backend rejects it: handleJobFailure logs the error and returns
RetryRejected(w) ==
  /\ w \in DOMAIN workers
  /\ workers[w].phase = "retryAdd"
  /\ workers' = [workers EXCEPT ![w].phase = "rethrow", ![w].req = NoReq]
  /\ UNCHANGED <<scheduler, calls, api, lastCleanup, others, backend>>

\* the attempts option of a job: how often the backend itself delivers it
OptAttempts(opts) == IF "attempts" \in DOMAIN opts THEN opts.attempts ELSE 1

ReportSwallowed(w) ==
  /\ w \in DOMAIN workers
  /\ workers[w].phase \in {"retryAdded", "rethrow"}
  /\ jobs' = [jobs EXCEPT ![workers[w].job].status = "completed",
                           ![workers[w].job].lock = 0]
  /\ workers' = [workers EXCEPT ![w].phase = "idle", ![w].job = NoJob,
                                ![w].retryId = NoJob, ![w].error = NoError]
  /\ UNCHANGED <<scheduler, calls, api, lastCleanup, others, waitList, jobCounter, paused>>

RethrownGeneric(w) == <<"job failed">>

\* throw error: the error the catch block caught, whatever handleJobFailure did
Rethrown(w) == workers[w].error

\* handleJobFailure has returned: the callback rethrows and the backend fails the
\* job, or puts it back on the wait list while its attempts option allows another
\* delivery
ReportFailed(w) ==
  /\ w \in DOMAIN workers
  /\ workers[w].phase \in {"retryAdded", "rethrow"}
  /\ LET id == workers[w].job
         made == jobs[id].attemptsMade + 1
     IN IF ~HoldsLock(w)
          THEN UNCHANGED <<jobs, waitList>>
          ELSE IF made < OptAttempts(jobs[id].opts)
          THEN /\ jobs' = [jobs EXCEPT ![id].status = "waiting", ![id].attemptsMade = made,
                                       ![id].failedReason = Rethrown(w), ![id].lock = 0]
               /\ waitList' = Append(waitList, id)
          ELSE /\ jobs' = [jobs EXCEPT ![id].status = "failed", ![id].attemptsMade = made,
                                       ![id].failedReason = Rethrown(w), ![id].lock = 0]
               /\ UNCHANGED waitList
  /\ workers' = [workers EXCEPT ![w].phase = "idle", ![w].job = NoJob,
                                ![w].retryId = NoJob, ![w].error = NoError]
  /\ UNCHANGED <<scheduler, calls, api, lastCleanup, others, jobCounter, paused>>

\* how often the backend puts a stalled job back (BullMQ's maxStalledCount)
MaxStalledCount == 1

\* the backend finds the lock of an active job expired while its handler is still
\* running (the handler kept the event loop busy): it takes the lock away, puts the
\* job back on the wait list and emits 'stalled'
Stall(id) ==
  /\ id \in DOMAIN jobs
  /\ jobs[id].status = "active"
  /\ jobs[id].lock \in DOMAIN workers
  /\ workers[jobs[id].lock].phase = "running"
  /\ jobs[id].stalledCounter < MaxStalledCount
  /\ jobs' = [jobs EXCEPT ![id].status = "waiting", ![id].lock = 0,
                           ![id].stalledCounter = @ + 1]
  /\ waitList' = Append(waitList, id)
  /\ UNCHANGED <<scheduler, calls, api, lastCleanup, others, workers, jobCounter, paused>>

\* the delay of a job has elapsed: the QueueScheduler moves it to the wait list
Promote(id) ==
  /\ queueScheduler = "open"
  /\ id \in Delayed
  /\ SetStatus(id, "waiting")
  /\ waitList' = Append(waitList, id)
  /\ UNCHANGED <<scheduler, calls, api, lastCleanup, others, workers, jobCounter, paused>>

\* new Queue succeeds and new QueueScheduler throws: initialize() rethrows with
\* this.queue set and isInitialized still false
InitializeFails ==
  /\ ~isInitialized
  /\ queue = "null"
  /\ queue' = "open"
  /\ UNCHANGED <<isInitialized, queueScheduler, processors, maxRetries, retryDelay,
                 currentOrder, processingOrder, calls, api, lastCleanup, others, workers, backend>>

\* ------------------------------------------------- monitoring and control
NotInitializedError == "Queue not initialized. Call initialize() first."
NullQueueError == "TypeError: Cannot read properties of null"
BackendError == "backend error"

GuardedButResume ==
  {"addJob", "start", "getOrderedJobCounts", "getJob", "getJobs", "pause"}

\* the methods that begin with the isInitialized guard
Guarded ==
  {"addJob", "start", "getOrderedJobCounts", "getJob", "getJobs", "pause", "resume"}

\* the caller has no monitoring or control call in flight
ApiFree == api.at \in {"returned", "thrown"}

Thrown(op, error) == [op |-> op, at |-> "thrown", error |-> error, value |-> NoValue]
ReturnedValue(op, value) == [op |-> op, at |-> "returned", error |-> "", value |-> value]
Awaiting(op, at, value) == [op |-> op, at |-> at, error |-> "", value |-> value]

\* a method up to its first await: the guard where it has one, then this.queue
Enter(op, at, args) ==
  IF op \in Guarded /\ ~isInitialized THEN Thrown(op, NotInitializedError)
  ELSE IF queue = "null" THEN Thrown(op, NullQueueError)
  ELSE Awaiting(op, at, args)

\* addJob and start called before initialize(): nothing but the throw happens
AddJobNotInitialized ==
  /\ ~isInitialized
  /\ ApiFree
  /\ api' = Enter("addJob", "queue.add", NoValue)
  /\ api'.at = "thrown"
  /\ UNCHANGED <<scheduler, calls, workers, backend, lastCleanup, others>>

StartNotInitialized ==
  /\ ~isInitialized
  /\ ApiFree
  /\ api' = Enter("start", "new Worker", NoValue)
  /\ api'.at = "thrown"
  /\ UNCHANGED <<scheduler, calls, workers, backend, lastCleanup, others>>

pause ==
  /\ ApiFree
  /\ api' = Enter("pause", "queue.pause", NoValue)
  /\ UNCHANGED <<scheduler, calls, workers, backend, lastCleanup, others>>

PauseReturned ==
  /\ api.op = "pause"
  /\ api.at = "queue.pause"
  /\ paused' = TRUE
  /\ api' = ReturnedValue("pause", NoValue)
  /\ UNCHANGED <<scheduler, calls, workers, jobs, waitList, jobCounter, lastCleanup, others>>

resume ==
  /\ ApiFree
  /\ api' = Enter("resume", "queue.resume", NoValue)
  /\ UNCHANGED <<scheduler, calls, workers, backend, lastCleanup, others>>

ResumeReturned ==
  /\ api.op = "resume"
  /\ api.at = "queue.resume"
  /\ paused' = FALSE
  /\ api' = ReturnedValue("resume", NoValue)
  /\ UNCHANGED <<scheduler, calls, workers, jobs, waitList, jobCounter, lastCleanup, others>>

getJob(jobId) ==
  /\ ApiFree
  /\ api' = Enter("getJob", "queue.getJob", [jobId |-> jobId])
  /\ UNCHANGED <<scheduler, calls, workers, backend, lastCleanup, others>>

GetJobReturned ==
  /\ api.op = "getJob"
  /\ api.at = "queue.getJob"
  /\ api' = ReturnedValue("getJob", IF api.value.jobId \in DOMAIN jobs
                                      THEN [job |-> jobs[api.value.jobId]]
                                      ELSE NoValue)
  /\ UNCHANGED <<scheduler, calls, workers, backend, lastCleanup, others>>

WithStatus(status) == {id \in DOMAIN jobs : jobs[id].status = status}

RECURSIVE Orderings(_)
\* the arrays that hold each member of S once
Orderings(S) ==
  IF S = {} THEN {<< >>}
  ELSE UNION {{<<x>> \o q : q \in Orderings(S \ {x})} : x \in S}

\* queue.getJobs(status, 0, -1): the jobs in that state, in the backend's order
BackendGetJobs(status) == Orderings(WithStatus(status))

\* queue.getJobCounts()
BackendGetJobCounts ==
  [s \in {"waiting", "active", "completed", "failed", "delayed"} |->
     Cardinality(WithStatus(s))]

getJobs(status) ==
  /\ ApiFree
  /\ api' = Enter("getJobs", "queue.getJobs", [status |-> status])
  /\ UNCHANGED <<scheduler, calls, workers, backend, lastCleanup, others>>

GetJobsReturned ==
  /\ api.op = "getJobs"
  /\ api.at = "queue.getJobs"
  /\ \E js \in BackendGetJobs(api.value.status) :
       api' = ReturnedValue("getJobs", [jobs |-> js])
  /\ UNCHANGED <<scheduler, calls, workers, backend, lastCleanup, others>>

\* the entry getOrderedJobCounts builds for a waiting job
WaitingEntry(id) ==
  [id |-> id, name |-> jobs[id].name,
   order |-> OrElse(jobs[id].data._order, 0),
   retryCount |-> OrElse(jobs[id].data._retryCount, 0)]

\* and for a delayed one
DelayedEntry(id) ==
  [id |-> id, name |-> jobs[id].name,
   order |-> OrElse(jobs[id].data._order, 0),
   retryCount |-> OrElse(jobs[id].data._retryCount, 0),
   delay |-> OptDelay(jobs[id].opts)]

\* waitingJobs.map(...) and delayedJobs.map(...)
WaitingEntries(q) == [i \in 1 .. Len(q) |-> WaitingEntry(q[i])]

DelayedEntries(q) == [i \in 1 .. Len(q) |-> DelayedEntry(q[i])]

CompareOrderDescending(a, b) == b.order - a.order

\* the comparator (a, b) => a.order - b.order
CompareOrder(a, b) == a.order - b.order

\* x placed behind the entries of a sorted array that do not compare greater
InsertSorted(x, q) ==
  LET n == Cardinality({i \in 1 .. Len(q) : CompareOrder(q[i], x) <= 0})
  IN SubSeq(q, 1, n) \o <<x>> \o SubSeq(q, n + 1, Len(q))

RECURSIVE SortByOrder(_)
\* array.sort(comparator): a stable sort
SortByOrder(q) ==
  IF q = << >> THEN << >>
  ELSE InsertSorted(q[Len(q)], SortByOrder(SubSeq(q, 1, Len(q) - 1)))

OrderedJobCountsIndexSize(jobCounts, waitingJobs, delayedJobs) ==
  Spread([orderedWaiting |-> SortByOrder(WaitingEntries(waitingJobs)),
          orderedDelayed |-> SortByOrder(DelayedEntries(delayedJobs)),
          totalOrder |-> Cardinality(DOMAIN processingOrder),
          maxRetries |-> maxRetries,
          retryDelay |-> retryDelay], jobCounts)

\* the object getOrderedJobCounts returns
OrderedJobCounts(jobCounts, waitingJobs, delayedJobs) ==
  Spread([orderedWaiting |-> SortByOrder(WaitingEntries(waitingJobs)),
          orderedDelayed |-> SortByOrder(DelayedEntries(delayedJobs)),
          totalOrder |-> currentOrder,
          maxRetries |-> maxRetries,
          retryDelay |-> retryDelay], jobCounts)

getOrderedJobCounts ==
  /\ ApiFree
  /\ api' = Enter("getOrderedJobCounts", "getJobCounts", NoValue)
  /\ UNCHANGED <<scheduler, calls, workers, backend, lastCleanup, others>>

\* the backend answers queue.getJobCounts(); getJobs('waiting') is sent
CountsAnswered ==
  /\ api.op = "getOrderedJobCounts"
  /\ api.at = "getJobCounts"
  /\ api' = Awaiting(api.op, "getJobs.waiting", [jobCounts |-> BackendGetJobCounts])
  /\ UNCHANGED <<scheduler, calls, workers, backend, lastCleanup, others>>

\* the backend answers queue.getJobs('waiting'); getJobs('delayed') is sent
WaitingAnswered ==
  /\ api.op = "getOrderedJobCounts"
  /\ api.at = "getJobs.waiting"
  /\ \E ws \in BackendGetJobs("waiting") :
       api' = Awaiting(api.op, "getJobs.delayed",
                       [jobCounts |-> api.value.jobCounts, waitingJobs |-> ws])
  /\ UNCHANGED <<scheduler, calls, workers, backend, lastCleanup, others>>

\* the backend answers queue.getJobs('delayed'); the lists are mapped and sorted
\* and the result is returned
DelayedAnswered ==
  /\ api.op = "getOrderedJobCounts"
  /\ api.at = "getJobs.delayed"
  /\ \E ds \in BackendGetJobs("delayed") :
       api' = ReturnedValue(api.op, OrderedJobCounts(api.value.jobCounts,
                                                     api.value.waitingJobs, ds))
  /\ UNCHANGED <<scheduler, calls, workers, backend, lastCleanup, others>>

ForgetAll(index, ids) == [id \in {} |-> 0]

ForgetOne(index, ids) ==
  IF DOMAIN index \cap ids = {} THEN index
  ELSE [id \in DOMAIN index \ {CHOOSE x \in DOMAIN index \cap ids : TRUE} |-> index[id]]

\* the Order Index without the entries of the given jobs
Forget(index, ids) == [id \in DOMAIN index \ ids |-> index[id]]

Range(q) == {q[i] : i \in 1 .. Len(q)}

\* cleanupOrderedJobs has no guard: on a null queue the TypeError is caught and logged
CleanupEntered ==
  /\ ApiFree
  /\ api' = IF queue = "null"
              THEN ReturnedValue("cleanupOrderedJobs", NoValue)
              ELSE Awaiting("cleanupOrderedJobs", "getJobs.completed", NoValue)
  /\ UNCHANGED <<scheduler, calls, workers, backend>>

cleanupOrderedJobs ==
  /\ CleanupEntered
  /\ UNCHANGED <<lastCleanup, others>>

\* the backend answers queue.getJobs('completed'); getJobs('failed') is sent
CompletedAnswered ==
  /\ api.op = "cleanupOrderedJobs"
  /\ api.at = "getJobs.completed"
  /\ \E cs \in BackendGetJobs("completed") :
       api' = Awaiting(api.op, "getJobs.failed", [completedJobs |-> cs])
  /\ UNCHANGED <<scheduler, calls, workers, backend, lastCleanup, others>>

\* the backend answers queue.getJobs('failed'); the entries of both lists are deleted
EntriesDeleted ==
  /\ api.op = "cleanupOrderedJobs"
  /\ api.at = "getJobs.failed"
  /\ \E fs \in BackendGetJobs("failed") :
       /\ processingOrder' = Forget(processingOrder,
                                    Range(api.value.completedJobs \o fs))
       /\ api' = ReturnedValue(api.op, NoValue)
  /\ UNCHANGED <<isInitialized, queue, queueScheduler, processors, maxRetries, retryDelay,
                 currentOrder, calls, workers, backend>>

FailedAnswered ==
  /\ EntriesDeleted
  /\ UNCHANGED <<lastCleanup, others>>

\* a caller that calls cleanupOrderedJobs up to MaxCleanups times and notes, at each
\* call, the backend's jobs
CleanupCalled ==
  /\ lastCleanup.calls < MaxCleanups
  /\ queue # "null"
  /\ CleanupEntered
  /\ lastCleanup' = [lastCleanup EXCEPT !.calls = @ + 1, !.jobsAtCall = jobs]
  /\ UNCHANGED others

\* and, when the call returns, the Order Index it left, next to its notes of the
\* call before
CleanupNoted ==
  /\ EntriesDeleted
  /\ lastCleanup' = [calls |-> lastCleanup.calls, jobsAtCall |-> NoValue,
                      jobs |-> lastCleanup.jobsAtCall, index |-> processingOrder',
                      jobsBefore |-> lastCleanup.jobs, indexBefore |-> lastCleanup.index]
  /\ UNCHANGED others

\* close() goes on with the next resource it holds: this.scheduler, then this.queue
CloseFrom(resource) ==
  IF resource = "scheduler" /\ queueScheduler # "null"
    THEN Awaiting("close", "scheduler.close", NoValue)
  ELSE IF queue # "null" THEN Awaiting("close", "queue.close", NoValue)
  ELSE ReturnedValue("close", NoValue)

\* close() up to its first await: this.worker, the Worker the last start() created,
\* is told to close and takes no further job
close ==
  /\ ApiFree
  /\ IF workers # << >>
       THEN /\ workers' = [workers EXCEPT ![Len(workers)].closing = TRUE]
            /\ api' = Awaiting("close", "worker.close", NoValue)
       ELSE /\ api' = CloseFrom("scheduler")
            /\ UNCHANGED workers
  /\ UNCHANGED <<scheduler, calls, backend, lastCleanup, others>>

\* worker.close() resolves once the job this.worker has in hand is done
WorkerClosed ==
  /\ api.op = "close"
  /\ api.at = "worker.close"
  /\ workers[Len(workers)].phase \in {"idle", "closed"}
  /\ workers' = [workers EXCEPT ![Len(workers)].phase = "closed"]
  /\ api' = CloseFrom("scheduler")
  /\ UNCHANGED <<scheduler, calls, backend, lastCleanup, others>>

\* scheduler.close() resolves: delayed jobs are no longer promoted by this instance
SchedulerClosed ==
  /\ api.op = "close"
  /\ api.at = "scheduler.close"
  /\ queueScheduler' = "closed"
  /\ api' = CloseFrom("queue")
  /\ UNCHANGED <<isInitialized, queue, processors, maxRetries, retryDelay, currentOrder,
                 processingOrder, calls, workers, backend, lastCleanup, others>>

\* queue.close() resolves
QueueClosed ==
  /\ api.op = "close"
  /\ api.at = "queue.close"
  /\ queue' = "closed"
  /\ api' = ReturnedValue("close", NoValue)
  /\ UNCHANGED <<isInitialized, queueScheduler, processors, maxRetries, retryDelay,
                 currentOrder, processingOrder, calls, workers, backend, lastCleanup, others>>

\* the backend rejects the call a method awaits: cleanupOrderedJobs logs the error,
\* every other method rethrows it
ApiRejected ==
  /\ ~ApiFree
  /\ api' = IF api.op = "cleanupOrderedJobs"
              THEN ReturnedValue(api.op, NoValue)
              ELSE Thrown(api.op, BackendError)
  /\ UNCHANGED <<scheduler, calls, workers, backend, lastCleanup, others>>

Next ==
  \/ initialize
  \/ \E n \in JobNames, h \in Handlers : registerProcessor(n, h)
  \/ \E c \in RetryConfigs : setRetryConfig(c.maxRetries, c.retryDelay)
  \/ \E n \in JobNames, p \in Payloads, o \in OptionChoices : addJob(n, p, o)
  \/ \E k \in DOMAIN calls : AddJobAccepted(k)
  \/ \E k \in DOMAIN calls : AddJobRejected(k)
  \/ start
  \/ \E w \in DOMAIN workers, t \in Timestamps : Deliver(w, t)
  \/ \E w \in DOMAIN workers : HandlerSuccess(w)
  \/ \E w \in DOMAIN workers, t \in Timestamps : HandlerFail(w, t)
  \/ \E w \in DOMAIN workers : RetryAccepted(w)
  \/ \E w \in DOMAIN workers : RetryRejected(w)
  \/ \E w \in DOMAIN workers : ReportFailed(w)
  \/ \E id \in DOMAIN jobs : Promote(id)

Spec == Init /\ [][Next]_vars

\* a caller that awaits every addJob before it makes the next call
AddJobAwaited(name, data, options) ==
  /\ Pending = {}
  /\ addJob(name, data, options)

NextAwaited ==
  \/ initialize
  \/ \E n \in JobNames, h \in Handlers : registerProcessor(n, h)
  \/ \E c \in RetryConfigs : setRetryConfig(c.maxRetries, c.retryDelay)
  \/ \E n \in JobNames, p \in Payloads, o \in OptionChoices : AddJobAwaited(n, p, o)
  \/ \E k \in DOMAIN calls : AddJobAccepted(k)
  \/ \E k \in DOMAIN calls : AddJobRejected(k)
  \/ start
  \/ \E w \in DOMAIN workers, t \in Timestamps : Deliver(w, t)
  \/ \E w \in DOMAIN workers : HandlerSuccess(w)
  \/ \E w \in DOMAIN workers, t \in Timestamps : HandlerFail(w, t)
  \/ \E w \in DOMAIN workers : RetryAccepted(w)
  \/ \E w \in DOMAIN workers : RetryRejected(w)
  \/ \E w \in DOMAIN workers : ReportFailed(w)
  \/ \E id \in DOMAIN jobs : Promote(id)

SpecAwaited == Init /\ [][NextAwaited]_vars

\* a caller that awaits every addJob and calls start() more than once
NextRepeatedStart ==
  \/ initialize
  \/ \E n \in JobNames, h \in Handlers : registerProcessor(n, h)
  \/ \E n \in JobNames, p \in Payloads, o \in OptionChoices : AddJobAwaited(n, p, o)
  \/ \E k \in DOMAIN calls : AddJobAccepted(k)
  \/ \E k \in DOMAIN calls : AddJobRejected(k)
  \/ StartRepeated
  \/ \E w \in DOMAIN workers, t \in Timestamps : Deliver(w, t)
  \/ \E w \in DOMAIN workers : HandlerSuccess(w)
  \/ \E w \in DOMAIN workers, t \in Timestamps : HandlerFail(w, t)
  \/ \E w \in DOMAIN workers : RetryAccepted(w)
  \/ \E w \in DOMAIN workers : RetryRejected(w)
  \/ \E w \in DOMAIN workers : ReportFailed(w)
  \/ \E id \in DOMAIN jobs : Promote(id)

SpecRepeatedStart == Init /\ [][NextRepeatedStart]_vars

\* a caller that sets the retry configuration before it initializes the scheduler
ConfigureFirst(m, d) ==
  /\ ~isInitialized
  /\ setRetryConfig(m, d)

InitializeConfigured ==
  /\ retryDelay # DefaultRetryDelay
  /\ initialize

\* a caller that passes options of its own to addJob
NextOptions ==
  \/ \E c \in RetryConfigs : ConfigureFirst(c.maxRetries, c.retryDelay)
  \/ InitializeConfigured
  \/ \E n \in JobNames, h \in Handlers : registerProcessor(n, h)
  \/ \E n \in JobNames, p \in Payloads, o \in CallerOptions : AddJobAwaited(n, p, o)
  \/ \E k \in DOMAIN calls : AddJobAccepted(k)
  \/ \E k \in DOMAIN calls : AddJobRejected(k)
  \/ start
  \/ \E w \in DOMAIN workers, t \in Timestamps : Deliver(w, t)
  \/ \E w \in DOMAIN workers : HandlerSuccess(w)
  \/ \E w \in DOMAIN workers, t \in Timestamps : HandlerFail(w, t)
  \/ \E w \in DOMAIN workers : RetryAccepted(w)
  \/ \E w \in DOMAIN workers : RetryRejected(w)
  \/ \E w \in DOMAIN workers : ReportFailed(w)
  \/ \E id \in DOMAIN jobs : Promote(id)

SpecOptions == Init /\ [][NextOptions]_vars

\* ------------------------------------------------------ the six-task example
\* the tasks orderedQueueExample adds, in this order
ScenarioTasks ==
  << [message |-> "First task", shouldFail |-> FALSE, order |-> 1],
     [message |-> "Second task", shouldFail |-> TRUE, order |-> 2],
     [message |-> "Third task", shouldFail |-> FALSE, order |-> 3],
     [message |-> "Fourth task", shouldFail |-> TRUE, order |-> 4],
     [message |-> "Fifth task", shouldFail |-> FALSE, order |-> 5],
     [message |-> "Sixth task", shouldFail |-> FALSE, order |-> 6] >>

\* a handler that fails the first attempt of the tasks marked shouldFail and
\* succeeds on their retry
ScenarioFails(job) == job.data._originalData.shouldFail /\ job.data._retryCount = 0

\* every task was added and every lineage has come to rest
ScenarioDone ==
  /\ Len(calls) = Len(ScenarioTasks)
  /\ Pending = {}
  /\ \A id \in DOMAIN jobs : jobs[id].status \in {"completed", "failed"}
  /\ \A w \in DOMAIN workers : workers[w].phase = "idle"

\* orderedQueueExample step by step, with a backend that rejects nothing
NextScenario ==
  \/ initialize
  \/ /\ isInitialized
     /\ retryDelay = DefaultRetryDelay
     /\ setRetryConfig(DefaultMaxRetries, DemoRetryDelay)
  \/ /\ retryDelay = DemoRetryDelay
     /\ DOMAIN processors = {}
     /\ \E n \in JobNames, h \in Handlers : registerProcessor(n, h)
  \/ /\ DOMAIN processors # {}
     /\ workers = << >>
     /\ StartWorker
  \/ /\ workers # << >>
     /\ Pending = {}
     /\ Len(calls) < Len(ScenarioTasks)
     /\ \E n \in JobNames : AddJobSent(n, ScenarioTasks[Len(calls) + 1], NoOptions)
  \/ \E k \in DOMAIN calls : AddJobAccepted(k)
  \/ \E w \in DOMAIN workers, t \in Timestamps : Deliver(w, t)
  \/ \E w \in DOMAIN workers :
       /\ workers[w].phase = "running"
       /\ ~ScenarioFails(jobs[workers[w].job])
       /\ HandlerSuccess(w)
  \/ \E w \in DOMAIN workers, t \in Timestamps :
       /\ workers[w].phase = "running"
       /\ ScenarioFails(jobs[workers[w].job])
       /\ HandlerFail(w, t)
  \/ \E w \in DOMAIN workers : RetryAccepted(w)
  \/ \E w \in DOMAIN workers : ReportFailed(w)
  \/ \E id \in DOMAIN jobs : Promote(id)
  \/ /\ ScenarioDone
     /\ api = NoCall
     /\ getOrderedJobCounts
  \/ CountsAnswered
  \/ WaitingAnswered
  \/ DelayedAnswered

SpecScenario == Init /\ [][NextScenario]_vars

\* a caller that also asks for the ordered counts, one call at a time
NextCounts ==
  \/ \E c \in RetryConfigs : ConfigureFirst(c.maxRetries, c.retryDelay)
  \/ InitializeConfigured
  \/ \E n \in JobNames, h \in Handlers : registerProcessor(n, h)
  \/ \E n \in JobNames, p \in Payloads, o \in OptionChoices : AddJobAwaited(n, p, o)
  \/ \E k \in DOMAIN calls : AddJobAccepted(k)
  \/ \E k \in DOMAIN calls : AddJobRejected(k)
  \/ start
  \/ \E w \in DOMAIN workers, t \in Timestamps : Deliver(w, t)
  \/ \E w \in DOMAIN workers : HandlerSuccess(w)
  \/ \E w \in DOMAIN workers, t \in Timestamps : HandlerFail(w, t)
  \/ \E w \in DOMAIN workers : RetryAccepted(w)
  \/ \E w \in DOMAIN workers : RetryRejected(w)
  \/ \E w \in DOMAIN workers : ReportFailed(w)
  \/ \E id \in DOMAIN jobs : Promote(id)
  \/ getOrderedJobCounts
  \/ CountsAnswered
  \/ WaitingAnswered
  \/ DelayedAnswered

SpecCounts == Init /\ [][NextCounts]_vars

\* a caller that calls the guarded methods at any time, one call at a time, whose
\* initialize() may fail and who has not started a Worker
NextGuarded ==
  \/ initialize
  \/ InitializeFails
  \/ \E n \in JobNames, h \in Handlers : registerProcessor(n, h)
  \/ \E n \in JobNames, p \in Payloads, o \in OptionChoices : AddJobAwaited(n, p, o)
  \/ \E k \in DOMAIN calls : AddJobAccepted(k)
  \/ \E k \in DOMAIN calls : AddJobRejected(k)
  \/ AddJobNotInitialized
  \/ StartNotInitialized
  \/ pause
  \/ PauseReturned
  \/ resume
  \/ ResumeReturned
  \/ \E id \in DOMAIN jobs \cup {NoJob} : getJob(id)
  \/ GetJobReturned
  \/ \E st \in {"waiting"} : getJobs(st)
  \/ GetJobsReturned
  \/ getOrderedJobCounts
  \/ CountsAnswered
  \/ WaitingAnswered
  \/ DelayedAnswered
  \/ cleanupOrderedJobs
  \/ CompletedAnswered
  \/ FailedAnswered
  \/ ApiRejected

SpecGuarded == Init /\ [][NextGuarded]_vars

\* a caller that also cleans the Order Index up, one call at a time
NextCleanup ==
  \/ \E c \in RetryConfigs : ConfigureFirst(c.maxRetries, c.retryDelay)
  \/ InitializeConfigured
  \/ \E n \in JobNames, h \in Handlers : registerProcessor(n, h)
  \/ \E n \in JobNames, p \in Payloads, o \in OptionChoices : AddJobAwaited(n, p, o)
  \/ \E k \in DOMAIN calls : AddJobAccepted(k)
  \/ \E k \in DOMAIN calls : AddJobRejected(k)
  \/ start
  \/ \E w \in DOMAIN workers, t \in Timestamps : Deliver(w, t)
  \/ \E w \in DOMAIN workers : HandlerSuccess(w)
  \/ \E w \in DOMAIN workers, t \in Timestamps : HandlerFail(w, t)
  \/ \E w \in DOMAIN workers : RetryAccepted(w)
  \/ \E w \in DOMAIN workers : RetryRejected(w)
  \/ \E w \in DOMAIN workers : ReportFailed(w)
  \/ \E id \in DOMAIN jobs : Promote(id)
  \/ cleanupOrderedJobs
  \/ CompletedAnswered
  \/ FailedAnswered

SpecCleanup == Init /\ [][NextCleanup]_vars

\* a caller that registers its processor before anything else
RegisterFirst(name, h) ==
  /\ ~isInitialized
  /\ DOMAIN processors = {}
  /\ registerProcessor(name, h)

InitializeRegistered ==
  /\ DOMAIN processors # {}
  /\ InitializeConfigured

\* a caller that cleans the Order Index up and notes what each call left
NextCleanupNoted ==
  \/ \E c \in RetryConfigs : ConfigureFirst(c.maxRetries, c.retryDelay)
  \/ \E n \in JobNames, h \in Handlers : RegisterFirst(n, h)
  \/ InitializeRegistered
  \/ \E n \in JobNames, p \in Payloads, o \in OptionChoices : AddJobAwaited(n, p, o)
  \/ \E k \in DOMAIN calls : AddJobAccepted(k)
  \/ \E k \in DOMAIN calls : AddJobRejected(k)
  \/ start
  \/ \E w \in DOMAIN workers, t \in Timestamps : Deliver(w, t)
  \/ \E w \in DOMAIN workers : HandlerSuccess(w)
  \/ \E w \in DOMAIN workers, t \in Timestamps : HandlerFail(w, t)
  \/ \E w \in DOMAIN workers : RetryAccepted(w)
  \/ \E w \in DOMAIN workers : RetryRejected(w)
  \/ \E w \in DOMAIN workers : ReportFailed(w)
  \/ \E id \in DOMAIN jobs : Promote(id)
  \/ CleanupCalled
  \/ CompletedAnswered
  \/ CleanupNoted

SpecCleanupNoted == Init /\ [][NextCleanupNoted]_vars

\* a caller that pauses the queue once and resumes it
PauseOnce ==
  /\ isInitialized
  /\ api = NoCall
  /\ pause

ResumeAfterPause ==
  /\ api = ReturnedValue("pause", NoValue)
  /\ resume

NextPause ==
  \/ \E c \in RetryConfigs : ConfigureFirst(c.maxRetries, c.retryDelay)
  \/ \E n \in JobNames, h \in Handlers : RegisterFirst(n, h)
  \/ InitializeRegistered
  \/ \E n \in JobNames, p \in Payloads, o \in OptionChoices : AddJobAwaited(n, p, o)
  \/ \E k \in DOMAIN calls : AddJobAccepted(k)
  \/ \E k \in DOMAIN calls : AddJobRejected(k)
  \/ start
  \/ \E w \in DOMAIN workers, t \in Timestamps : Deliver(w, t)
  \/ \E w \in DOMAIN workers : HandlerSuccess(w)
  \/ \E w \in DOMAIN workers, t \in Timestamps : HandlerFail(w, t)
  \/ \E w \in DOMAIN workers : RetryAccepted(w)
  \/ \E w \in DOMAIN workers : RetryRejected(w)
  \/ \E w \in DOMAIN workers : ReportFailed(w)
  \/ \E id \in DOMAIN jobs : Promote(id)
  \/ PauseOnce
  \/ PauseReturned
  \/ ResumeAfterPause
  \/ ResumeReturned

\* a caller whose payloads have keys named _order, _retryCount and _maxRetries
NextPayload ==
  \/ \E c \in RetryConfigs : ConfigureFirst(c.maxRetries, c.retryDelay)
  \/ \E n \in JobNames, h \in Handlers : RegisterFirst(n, h)
  \/ InitializeRegistered
  \/ \E n \in JobNames, p \in MetadataPayloads, o \in OptionChoices : AddJobAwaited(n, p, o)
  \/ \E k \in DOMAIN calls : AddJobAccepted(k)
  \/ \E k \in DOMAIN calls : AddJobRejected(k)
  \/ start
  \/ \E w \in DOMAIN workers, t \in Timestamps : Deliver(w, t)
  \/ \E w \in DOMAIN workers : HandlerSuccess(w)
  \/ \E w \in DOMAIN workers, t \in Timestamps : HandlerFail(w, t)
  \/ \E w \in DOMAIN workers : RetryAccepted(w)
  \/ \E w \in DOMAIN workers : RetryRejected(w)
  \/ \E w \in DOMAIN workers : ReportFailed(w)
  \/ \E id \in DOMAIN jobs : Promote(id)

SpecPayload == Init /\ [][NextPayload]_vars

\* a caller that calls start() as often as it likes and then closes the scheduler
CloseOnce ==
  /\ api = NoCall
  /\ close

StartBeforeClose ==
  /\ api = NoCall
  /\ StartRepeated

NextClose ==
  \/ \E c \in RetryConfigs : ConfigureFirst(c.maxRetries, c.retryDelay)
  \/ \E n \in JobNames, h \in Handlers : RegisterFirst(n, h)
  \/ InitializeRegistered
  \/ \E n \in JobNames, p \in Payloads, o \in OptionChoices : AddJobAwaited(n, p, o)
  \/ \E k \in DOMAIN calls : AddJobAccepted(k)
  \/ \E k \in DOMAIN calls : AddJobRejected(k)
  \/ StartBeforeClose
  \/ \E w \in DOMAIN workers, t \in Timestamps : Deliver(w, t)
  \/ \E w \in DOMAIN workers : HandlerSuccess(w)
  \/ \E w \in DOMAIN workers, t \in Timestamps : HandlerFail(w, t)
  \/ \E w \in DOMAIN workers : RetryAccepted(w)
  \/ \E w \in DOMAIN workers : RetryRejected(w)
  \/ \E w \in DOMAIN workers : ReportFailed(w)
  \/ \E id \in DOMAIN jobs : Promote(id)
  \/ CloseOnce
  \/ WorkerClosed
  \/ SchedulerClosed
  \/ QueueClosed

SpecClose == Init /\ [][NextClose]_vars

\* the ids a job can have: <<n>> for the n-th accepted addJob, one more element per
\* retry
JobIds ==
  {<<n>> \o ts : n \in 1 .. MaxAddJobs,
                 ts \in UNION {[1 .. k -> Timestamps] : k \in 0 .. DefaultMaxRetries}}

\* the backend and the Worker do what they can do, every processor call settles,
\* and the backend answers pause and resume
SpecPause ==
  /\ Init /\ [][NextPause]_vars
  /\ WF_vars(\E w \in DOMAIN workers, t \in Timestamps : Deliver(w, t))
  /\ WF_vars(\E w \in DOMAIN workers, t \in Timestamps :
               HandlerSuccess(w) \/ HandlerFail(w, t))
  /\ WF_vars(\E w \in DOMAIN workers : RetryAccepted(w) \/ RetryRejected(w))
  /\ WF_vars(\E w \in DOMAIN workers : ReportFailed(w))
  /\ \A id \in JobIds : WF_vars(Promote(id))
  /\ WF_vars(ResumeReturned)

\* a caller that registers processors while the scheduler runs, also for a name that
\* has one
NextReregister ==
  \/ \E c \in RetryConfigs : ConfigureFirst(c.maxRetries, c.retryDelay)
  \/ InitializeConfigured
  \/ \E n \in JobNames, h \in ReplacingHandlers : registerProcessor(n, h)
  \/ \E n \in JobNames, p \in Payloads, o \in OptionChoices : AddJobAwaited(n, p, o)
  \/ \E k \in DOMAIN calls : AddJobAccepted(k)
  \/ start
  \/ \E w \in DOMAIN workers, t \in Timestamps : Deliver(w, t)
  \/ \E w \in DOMAIN workers : HandlerSuccess(w)
  \/ \E w \in DOMAIN workers, t \in Timestamps : HandlerFail(w, t)
  \/ \E w \in DOMAIN workers : RetryAccepted(w)
  \/ \E w \in DOMAIN workers : ReportFailed(w)
  \/ \E id \in DOMAIN jobs : Promote(id)

SpecReregister == Init /\ [][NextReregister]_vars

\* ---------------------------------------------------- OrderedQueueSimulation
\* the objects of OrderedQueueWithRetry, its backend and its callers
queueWithRetry == <<scheduler, calls, workers, backend, api, lastCleanup>>

\* job_${Date.now()}_${random}: an id no other job has
SimJobId(order) == <<order + 1>>

\* the job addJob builds
SimJob(s, name, data) ==
  [id |-> SimJobId(s.currentOrder), name |-> name,
   data |-> Spread([_order |-> s.currentOrder, _originalData |-> data,
                    _retryCount |-> 0, _maxRetries |-> s.maxRetries], data),
   status |-> "waiting"]

\* the retry handleJobFailure builds
SimRetryJob(job, retryCount, budget, t) ==
  [id |-> Append(job.id, t), name |-> job.name,
   data |-> Spread([_order |-> job.data._order,
                    _originalData |-> job.data._originalData,
                    _retryCount |-> retryCount + 1, _maxRetries |-> budget],
                   job.data._originalData),
   status |-> "delayed"]

\* handleJobFailure: past the budget nothing, else the retry is left to a timer
SimHandleJobFailure(s, job, t) ==
  LET retryCount == OrElse(job.data._retryCount, 0)
      budget == OrElse(job.data._maxRetries, s.maxRetries)
  IN IF retryCount >= budget
       THEN s
       ELSE [s EXCEPT !.timers = @ \cup {SimRetryJob(job, retryCount, budget, t)}]

SimInsertLast(x, q) == Append(q, x)

\* x put behind the jobs of q whose order is not higher
RECURSIVE SimInsert(_, _)
SimInsert(x, q) ==
  IF q = << >> THEN <<x>>
  ELSE IF x.data._order < Head(q).data._order THEN <<x>> \o q
  ELSE <<Head(q)>> \o SimInsert(x, Tail(q))

\* this.queue.sort((a, b) => a.data._order - b.data._order): a stable sort
RECURSIVE SimSort(_)
SimSort(q) ==
  IF q = << >> THEN << >> ELSE SimInsert(q[Len(q)], SimSort(SubSeq(q, 1, Len(q) - 1)))

\* the job processNext takes: the first one after the sort
SimTake(q) == Head(SimSort(q))

\* processNext up to its first await: it returns at once while a job is in hand or
\* the queue is empty, else it takes a job and calls its processor, or, without one,
\* throws inside the try block and calls handleJobFailure
SimProcessNext(s, t) ==
  IF s.isProcessing \/ s.queue = << >>
    THEN s
    ELSE LET job == SimTake(s.queue)
             taken == [s EXCEPT !.isProcessing = TRUE, !.queue = Tail(SimSort(s.queue)),
                                !.job = job]
         IN IF job.name \in DOMAIN s.processors
              THEN [taken EXCEPT !.at = "processor", !.invocations = @ + 1]
              ELSE [SimHandleJobFailure(taken, job, t) EXCEPT !.at = "failure"]

\* if (!this.isProcessing) this.processNext(), as addJob and the timer do it
SimWake(s, t) == IF ~s.isProcessing THEN SimProcessNext(s, t) ELSE s

SimFinishIdle(s, t) ==
  [s EXCEPT !.isProcessing = FALSE, !.job = NoValue, !.at = "idle"]

\* the end of processNext: isProcessing = false, then the next job if there is one
SimFinish(s, t) ==
  LET done == [s EXCEPT !.isProcessing = FALSE, !.job = NoValue, !.at = "idle"]
  IN IF done.queue # << >> THEN SimProcessNext(done, t) ELSE done

SimRegisterProcessor(name, h) ==
  /\ simulation' = [simulation EXCEPT !.processors = (name :> h) @@ @]
  /\ UNCHANGED <<queueWithRetry, jobWorker>>

SimSetRetryConfig(m, d) ==
  /\ simulation' = [simulation EXCEPT !.maxRetries = m, !.retryDelay = d]
  /\ UNCHANGED <<queueWithRetry, jobWorker>>

\* addJob: the job is pushed and indexed, and processNext is called unless a job is
\* in hand
SimAddJob(name, data, t) ==
  /\ simulation.currentOrder < MaxSimAddJobs
  /\ LET job == SimJob(simulation, name, data)
     IN simulation' = SimWake([simulation EXCEPT
                                 !.currentOrder = @ + 1,
                                 !.queue = Append(@, job),
                                 !.processingOrder = (job.id :> job.data._order) @@ @], t)
  /\ UNCHANGED <<queueWithRetry, jobWorker>>

\* the processor resolves: processNext logs the result and finishes
SimProcessorResolves(t) ==
  /\ simulation.at = "processor"
  /\ simulation' = SimFinish([simulation EXCEPT !.invocations = @ - 1], t)
  /\ UNCHANGED <<queueWithRetry, jobWorker>>

\* the processor rejects: the catch block calls handleJobFailure and awaits it
SimProcessorRejects(t) ==
  /\ simulation.at = "processor"
  /\ simulation' = [SimHandleJobFailure(simulation, simulation.job, t) EXCEPT
                      !.at = "failure", !.invocations = @ - 1]
  /\ UNCHANGED <<queueWithRetry, jobWorker>>

\* processNext resumes after await this.handleJobFailure(job, error) and finishes
SimFailureHandled(t) ==
  /\ simulation.at = "failure"
  /\ simulation' = SimFinish(simulation, t)
  /\ UNCHANGED <<queueWithRetry, jobWorker>>

\* the setTimeout callback of a retry runs, which it does not do between
\* handleJobFailure and the continuation of processNext that awaits it: the retry is
\* pushed as waiting and indexed, and processNext is called unless a job is in hand
SimTimerFires(r, t) ==
  /\ r \in simulation.timers
  /\ simulation.at # "failure"
  /\ simulation' = SimWake([simulation EXCEPT
                              !.timers = @ \ {r},
                              !.queue = Append(@, [r EXCEPT !.status = "waiting"]),
                              !.processingOrder = (r.id :> r.data._order) @@ @], t)
  /\ UNCHANGED <<queueWithRetry, jobWorker>>

SimWithStatus(s, status) == SelectSeq(s.queue, LAMBDA job : job.status = status)

\* the entry getStats lists for a job (retryAt is left out with the clock)
SimEntry(job) ==
  [id |-> job.id, name |-> job.name, order |-> job.data._order,
   retryCount |-> job.data._retryCount]

SimEntries(q) == [i \in 1 .. Len(q) |-> SimEntry(q[i])]

\* getStats(): the counts and the ordered lists are taken from this.queue
SimGetStats(s) ==
  [totalOrder |-> s.currentOrder,
   waiting |-> Len(SimWithStatus(s, "waiting")),
   delayed |-> Len(SimWithStatus(s, "delayed")),
   isProcessing |-> s.isProcessing,
   orderedWaiting |-> SortByOrder(SimEntries(SimWithStatus(s, "waiting"))),
   orderedDelayed |-> SortByOrder(SimEntries(SimWithStatus(s, "delayed")))]

\* the configurations a caller of the simulation sets: the example's, and a budget
\* of one retry
SimRetryConfigs == {[maxRetries |-> 3, retryDelay |-> 3000],
                    [maxRetries |-> 1, retryDelay |-> 3000]}

\* the simulation with a caller that configures and registers, then adds jobs
NextSimulation ==
  \/ \E c \in SimRetryConfigs :
       simulation.currentOrder = 0 /\ SimSetRetryConfig(c.maxRetries, c.retryDelay)
  \/ \E n \in JobNames, h \in Handlers : SimRegisterProcessor(n, h)
  \/ \E n \in JobNames, p \in Payloads, t \in Timestamps : SimAddJob(n, p, t)
  \/ \E t \in Timestamps : SimProcessorResolves(t)
  \/ \E t \in Timestamps : SimProcessorRejects(t)
  \/ \E t \in Timestamps : SimFailureHandled(t)
  \/ \E r \in simulation.timers, t \in Timestamps : SimTimerFires(r, t)

SpecSimulation == Init /\ [][NextSimulation]_vars

\* the scheduler on a backend that finds a job stalled while its handler runs long
NextStalled ==
  \/ \E c \in RetryConfigs : ConfigureFirst(c.maxRetries, c.retryDelay)
  \/ \E n \in JobNames, h \in Handlers : RegisterFirst(n, h)
  \/ InitializeRegistered
  \/ \E n \in JobNames, p \in Payloads, o \in OptionChoices : AddJobAwaited(n, p, o)
  \/ \E k \in DOMAIN calls : AddJobAccepted(k)
  \/ start
  \/ \E w \in DOMAIN workers, t \in Timestamps : Deliver(w, t)
  \/ \E w \in DOMAIN workers : HandlerSuccess(w)
  \/ \E w \in DOMAIN workers, t \in LaterTimestamps : HandlerFail(w, t)
  \/ \E w \in DOMAIN workers : RetryAccepted(w)
  \/ \E w \in DOMAIN workers : ReportFailed(w)
  \/ \E id \in DOMAIN jobs : Promote(id)
  \/ \E id \in DOMAIN jobs : Stall(id)

SpecStalled == Init /\ [][NextStalled]_vars

\* the process ends with no call of its own in flight and no job in hand, and a new
\* process constructs an OrderedQueueWithRetry on the same queue name: the fields are
\* those of the constructor, the backend is as it was left
Restart ==
  /\ currentOrder > 0
  /\ Pending = {}
  /\ \A w \in DOMAIN workers : workers[w].phase = "idle"
  /\ isInitialized' = FALSE
  /\ queue' = "null"
  /\ queueScheduler' = "null"
  /\ processors' = NoValue
  /\ maxRetries' = DefaultMaxRetries
  /\ retryDelay' = DefaultRetryDelay
  /\ currentOrder' = 0
  /\ processingOrder' = NoValue
  /\ workers' = << >>
  /\ UNCHANGED <<calls, backend, api, lastCleanup, others>>

\* the scheduler in a process that is restarted while the backend holds jobs
NextRestart ==
  \/ \E c \in RetryConfigs : ConfigureFirst(c.maxRetries, c.retryDelay)
  \/ \E n \in JobNames, h \in Handlers : RegisterFirst(n, h)
  \/ InitializeRegistered
  \/ \E n \in JobNames, p \in Payloads, o \in OptionChoices : AddJobAwaited(n, p, o)
  \/ \E k \in DOMAIN calls : AddJobAccepted(k)
  \/ start
  \/ \E w \in DOMAIN workers, t \in Timestamps : Deliver(w, t)
  \/ \E w \in DOMAIN workers : HandlerSuccess(w)
  \/ \E w \in DOMAIN workers, t \in Timestamps : HandlerFail(w, t)
  \/ \E w \in DOMAIN workers : RetryAccepted(w)
  \/ \E w \in DOMAIN workers : ReportFailed(w)
  \/ \E id \in DOMAIN jobs : Promote(id)
  \/ Restart

SpecRestart == Init /\ [][NextRestart]_vars

\* the caller calls a monitoring or control method on a scheduler it has closed; the
\* closed backend rejects what is forwarded to it
CalledAfterClose ==
  /\ queue = "closed"
  /\ pause \/ resume \/ getOrderedJobCounts

RejectedAfterClose ==
  /\ queue = "closed"
  /\ ApiRejected

\* a caller that closes the scheduler, also more than once, and goes on calling it
NextAfterClose ==
  \/ \E c \in RetryConfigs : ConfigureFirst(c.maxRetries, c.retryDelay)
  \/ \E n \in JobNames, h \in Handlers : RegisterFirst(n, h)
  \/ InitializeRegistered
  \/ \E n \in JobNames, p \in Payloads, o \in OptionChoices : AddJobAwaited(n, p, o)
  \/ \E k \in DOMAIN calls : AddJobAccepted(k)
  \/ \E k \in DOMAIN calls : AddJobRejected(k)
  \/ start
  \/ \E w \in DOMAIN workers, t \in Timestamps : Deliver(w, t)
  \/ \E w \in DOMAIN workers : HandlerSuccess(w)
  \/ \E w \in DOMAIN workers, t \in Timestamps : HandlerFail(w, t)
  \/ \E w \in DOMAIN workers : RetryAccepted(w)
  \/ \E w \in DOMAIN workers : RetryRejected(w)
  \/ \E w \in DOMAIN workers : ReportFailed(w)
  \/ \E id \in DOMAIN jobs : Promote(id)
  \/ close
  \/ WorkerClosed
  \/ SchedulerClosed
  \/ QueueClosed
  \/ CalledAfterClose
  \/ RejectedAfterClose

SpecAfterClose == Init /\ [][NextAfterClose]_vars

\* the ids a job of the simulation can have
SimJobIds ==
  {<<n>> \o ts : n \in 1 .. MaxSimAddJobs,
                 ts \in UNION {[1 .. k -> Timestamps] : k \in 0 .. DefaultMaxRetries}}

\* every processor call settles and every continuation of processNext runs
SpecSimulationFair ==
  /\ Init /\ [][NextSimulation]_vars
  /\ WF_vars(\E t \in Timestamps : SimProcessorResolves(t) \/ SimProcessorRejects(t))
  /\ WF_vars(\E t \in Timestamps : SimFailureHandled(t))

\* ------------------------------------------------------------ OrderedJobWorker
JwRegisterProcessor(name, h) ==
  /\ jobWorker' = [jobWorker EXCEPT !.processors = (name :> h) @@ @]
  /\ UNCHANGED <<queueWithRetry, simulation>>

\* start(): a Worker on the queue, unless the worker is running
JwStart ==
  /\ ~jobWorker.isRunning
  /\ jobWorker' = [jobWorker EXCEPT !.worker = "open", !.isRunning = TRUE]
  /\ UNCHANGED <<queueWithRetry, simulation>>

\* the handlers of the Worker's 'completed' and 'failed' events
JwSettled(jw) ==
  [jw EXCEPT !.isProcessing = FALSE, !.currentJob = NoValue, !.job = NoJob,
             !.handler = "", !.at = "idle"]

\* the callback throws: the backend fails job id, or puts it back on the wait list
\* while its attempts option allows another delivery
JwFailed(id, error, rest) ==
  LET made == jobs[id].attemptsMade + 1
  IN IF made < OptAttempts(jobs[id].opts)
       THEN /\ jobs' = [jobs EXCEPT ![id].status = "waiting", ![id].attemptsMade = made,
                                    ![id].failedReason = error]
            /\ waitList' = Append(rest, id)
       ELSE /\ jobs' = [jobs EXCEPT ![id].status = "failed", ![id].attemptsMade = made,
                                    ![id].failedReason = error]
            /\ waitList' = rest

\* the backend hands the Worker a job and the callback runs up to its first await:
\* it calls the processor, or without one throws, the backend fails the job and the
\* Worker emits 'failed'
JwDeliver ==
  /\ jobWorker.worker = "open"
  /\ ~jobWorker.stopping
  /\ jobWorker.at = "idle"
  /\ Deliverable
  /\ LET id == NextJob IN
     IF jobs[id].name \in DOMAIN jobWorker.processors
       THEN /\ waitList' = SelectSeq(waitList, LAMBDA x : x # id)
            /\ SetStatus(id, "active")
            /\ jobWorker' = [jobWorker EXCEPT
                              !.job = id, !.at = "processor",
                              !.handler = jobWorker.processors[jobs[id].name]]
       ELSE /\ JwFailed(id, NoProcessorError(jobs[id].name),
                        SelectSeq(waitList, LAMBDA x : x # id))
            /\ jobWorker' = JwSettled(jobWorker)
  /\ UNCHANGED <<scheduler, calls, workers, jobCounter, paused, api, lastCleanup,
                 simulation>>

\* the processor resolves: the callback returns its result, the backend completes
\* the job and the Worker emits 'completed'
JwProcessorResolves ==
  /\ jobWorker.at = "processor"
  /\ jobs' = [jobs EXCEPT
       ![jobWorker.job].status = "completed",
       ![jobWorker.job].returnvalue =
          ProcessorResult(jobWorker.handler, HandlerArgsData(jobs[jobWorker.job]))]
  /\ jobWorker' = JwSettled(jobWorker)
  /\ UNCHANGED <<scheduler, calls, workers, waitList, jobCounter, paused, api,
                 lastCleanup, simulation>>

\* the processor rejects: the callback rethrows, the backend fails the job and the
\* Worker emits 'failed'
JwProcessorRejects ==
  /\ jobWorker.at = "processor"
  /\ JwFailed(jobWorker.job, HandlerError, waitList)
  /\ jobWorker' = JwSettled(jobWorker)
  /\ UNCHANGED <<scheduler, calls, workers, jobCounter, paused, api, lastCleanup,
                 simulation>>

\* stop() up to its await: the Worker is told to close and takes no further job
JwStop ==
  /\ jobWorker.isRunning
  /\ ~jobWorker.stopping
  /\ jobWorker' = [jobWorker EXCEPT !.stopping = TRUE]
  /\ UNCHANGED <<queueWithRetry, simulation>>

\* worker.close() resolves once the job in hand is done, and stop() goes on
JwStopped ==
  /\ jobWorker.stopping
  /\ jobWorker.at = "idle"
  /\ jobWorker' = [jobWorker EXCEPT !.worker = "null", !.isRunning = FALSE,
                                    !.isProcessing = FALSE, !.currentJob = NoValue,
                                    !.stopping = FALSE]
  /\ UNCHANGED <<queueWithRetry, simulation>>

\* isCurrentlyProcessing()
JwIsCurrentlyProcessing(jw) == jw.isProcessing

\* getCurrentJob(): NoValue stands for null
JwGetCurrentJob(jw) == jw.currentJob

\* getStats()
JwGetStats(jw) ==
  IF jw.worker = "null"
    THEN [isRunning |-> FALSE]
    ELSE [isRunning |-> jw.isRunning,
          isProcessing |-> jw.isProcessing,
          currentJob |-> IF jw.currentJob # NoValue
                           THEN [id |-> jw.currentJob.id, name |-> jw.currentJob.name,
                                 order |-> jw.currentJob.data._order]
                           ELSE NoValue,
          processors |-> DOMAIN jw.processors]

\* an OrderedJobWorker on the queue an OrderedQueueWithRetry adds jobs to
NextJobWorker ==
  \/ initialize
  \/ \E n \in JobNames, p \in Payloads, o \in CallerOptions : AddJobAwaited(n, p, o)
  \/ \E k \in DOMAIN calls : AddJobAccepted(k)
  \/ \E n \in JobNames, h \in Handlers : JwRegisterProcessor(n, h)
  \/ JwStart
  \/ JwDeliver
  \/ JwProcessorResolves
  \/ JwProcessorRejects
  \/ JwStop
  \/ JwStopped

SpecJobWorker == Init /\ [][NextJobWorker]_vars

\* ---------------------------------------------------------------- lineages
RECURSIVE RootOf(_)
\* the original submission an attempt descends from, along _previousJobId
RootOf(id) ==
  IF "_previousJobId" \in DOMAIN jobs[id].data
    THEN RootOf(jobs[id].data._previousJobId)
    ELSE id

Originals == {id \in DOMAIN jobs : "_previousJobId" \notin DOMAIN jobs[id].data}
Retries == DOMAIN jobs \ Originals
Lineage(root) == {id \in DOMAIN jobs : RootOf(id) = root}
Returned == {k \in DOMAIN calls : calls[k].state = "returned"}
Rejected == {k \in DOMAIN calls : calls[k].state = "rejected"}

\* ------------------------------------------------------------------ claims

\* C1: when no addJob call was rejected by the backend, the k-th call (counted
\* from 0) puts _order = k into its envelope, so the accepted envelopes carry
\* exactly the orders 0..N-1 in call order.
C1_OrdersInCallOrder ==
  Rejected = {} =>
    /\ \A k \in DOMAIN calls : calls[k].data._order = k - 1
    /\ \A k \in Returned : jobs[calls[k].id].data._order = k - 1
    /\ {jobs[id].data._order : id \in Originals} = {k - 1 : k \in Returned}

C1_Witness ==
  /\ Len(calls) = MaxAddJobs
  /\ Returned = DOMAIN calls
  /\ Retries # {}

\* C2: two envelopes in the backend carry the same order only if they belong to
\* the same lineage, and the orders taken by distinct addJob calls strictly
\* increase in call order, also for overlapping and for rejected calls.
C2_OrderIdentifiesLineage ==
  /\ \A a, b \in DOMAIN jobs :
       jobs[a].data._order = jobs[b].data._order => RootOf(a) = RootOf(b)
  /\ \A k1, k2 \in DOMAIN calls : k1 < k2 => calls[k1].order < calls[k2].order
  /\ \A k \in Returned : jobs[calls[k].id].data._order = calls[k].order

C2_Witness ==
  /\ Cardinality(Originals) = MaxAddJobs
  /\ \A root \in Originals : Cardinality(Lineage(root)) >= 2

\* C3: every retry envelope carries the order of the original submission of its
\* lineage, at every retry count up to the budget.
C3_RetryKeepsOrder ==
  /\ \A id \in Retries : jobs[id].data._order = jobs[RootOf(id)].data._order
  /\ \A w \in DOMAIN workers :
       workers[w].phase = "retryAdd" =>
         workers[w].req.data._order = jobs[RootOf(workers[w].job)].data._order

C3_Witness ==
  \E id \in Retries :
    /\ jobs[id].data._retryCount = DefaultMaxRetries
    /\ jobs[id].data._order = 1
    /\ jobs[RootOf(id)].data._order = 1

\* the budget a lineage got when it was submitted
Budget(root) == jobs[root].data._maxRetries

\* an attempt the backend still holds for delivery or has in hand
Live(id) == jobs[id].status \in {"waiting", "delayed", "active"}

\* C4: a lineage is resubmitted at most maxRetries times (at most maxRetries + 1
\* envelopes), and an attempt that failed with retryCount >= maxRetries has no
\* successor.
C4_AttemptsWithinBudget ==
  /\ \A root \in Originals : Cardinality(Lineage(root)) <= Budget(root) + 1
  /\ \A id \in DOMAIN jobs :
       jobs[id].data._retryCount >= jobs[id].data._maxRetries =>
         ~ \E r \in Retries : jobs[r].data._previousJobId = id

\* C5: a lineage all of whose deliveries failed and whose last attempt reached
\* the budget was resubmitted exactly maxRetries times, with retryCount 1, 2, ...,
\* maxRetries, and the attempt with retryCount = maxRetries is its last.
C5_ExhaustsAtBudget ==
  \A root \in Originals :
    LET counts == {jobs[id].data._retryCount : id \in Lineage(root)} IN
    (/\ \A id \in Lineage(root) : jobs[id].status = "failed"
     /\ \E id \in Lineage(root) : jobs[id].data._retryCount >= Budget(root))
      => /\ counts = 0 .. Budget(root)
         /\ Cardinality(Lineage(root)) = Budget(root) + 1

\* the step in which handleJobFailure of worker w sends its queue.add
SendsRetry(w) ==
  /\ workers[w].phase \in {"idle", "running"}
  /\ workers'[w].phase = "retryAdd"

\* the step in which the backend enqueues it
EnqueuesRetry(w) ==
  /\ workers[w].phase = "retryAdd"
  /\ workers'[w].phase = "retryAdded"

C6_Step(w) ==
  /\ SendsRetry(w) =>
       LET failed == jobs[workers'[w].job]
           retry == workers'[w].req IN
       failed.data._retryCount < failed.data._maxRetries =>
         /\ retry.name = failed.name
         /\ retry.data._originalData = failed.data._originalData
         /\ retry.data._maxRetries = failed.data._maxRetries
         /\ retry.data._retryCount = failed.data._retryCount + 1
         /\ retry.data._previousJobId = failed.id
         /\ retry.opts.delay = retryDelay
  /\ EnqueuesRetry(w) =>
       /\ workers'[w].retryId \in DOMAIN jobs' \ DOMAIN jobs
       /\ jobs'[workers'[w].retryId].name = workers[w].req.name
       /\ jobs'[workers'[w].retryId].data = workers[w].req.data
       /\ jobs'[workers'[w].retryId].opts = workers[w].req.opts
       /\ jobs'[workers'[w].retryId].status = "delayed"

\* C6: when an attempt with retryCount < maxRetries fails, the envelope
\* handleJobFailure enqueues has the same name, payload and maxRetries, the
\* retry count plus one, the failed attempt's id as _previousJobId and the
\* delay retryDelay, and the backend stores that envelope as a delayed job.
C6_RetryEnvelope == [][\A w \in DOMAIN workers : C6_Step(w)]_vars

C6_Witness ==
  \E w \in DOMAIN workers :
    /\ workers[w].phase = "retryAdded"
    /\ jobs[workers[w].retryId].status = "delayed"
    /\ jobs[workers[w].retryId].data._retryCount = 2
    /\ jobs[workers[w].retryId].data._maxRetries = DefaultMaxRetries
    /\ jobs[workers[w].retryId].opts.delay = DemoRetryDelay

\* C7: the budget of a lineage is the maxRetries in force at its addJob call,
\* zero included: every retry envelope carries it and the lineage gets no more
\* resubmissions than it allows, whatever setRetryConfig does later.
C7_BudgetFixedAtSubmission ==
  /\ \A id \in Retries : jobs[id].data._maxRetries = Budget(RootOf(id))
  /\ \A id \in Retries : jobs[id].data._retryCount <= Budget(RootOf(id))

\* the retryDelay in force when the lineage of an attempt was submitted
DelayAtSubmission(id) ==
  LET k == CHOOSE c \in DOMAIN calls : calls[c].order = jobs[id].data._order
  IN calls[k].retryDelayAtCall

\* C8 as claimed: a retry is enqueued with the retryDelay that was configured
\* when its lineage was submitted.
C8_DelayFixedAtSubmission ==
  \A id \in Retries : jobs[id].opts.delay = DelayAtSubmission(id)

C8_Step(w) ==
  /\ SendsRetry(w) => workers'[w].req.opts.delay = retryDelay
  /\ EnqueuesRetry(w) =>
       jobs'[workers'[w].retryId].opts.delay = workers[w].req.opts.delay

\* C8 as amended: a retry is enqueued with the retryDelay in force when
\* handleJobFailure handles the failed attempt, also for a lineage submitted
\* under another retryDelay.
C8_DelayReadAtFailure == [][\A w \in DOMAIN workers : C8_Step(w)]_vars

C8_Witness ==
  \E id \in Retries :
    /\ DelayAtSubmission(id) = DefaultRetryDelay
    /\ jobs[id].opts.delay = DemoRetryDelay
    /\ jobs[id].status = "delayed"

\* C9: a handler never runs for a lineage while a lineage of lower order still
\* has an attempt waiting, delayed or in hand.
C9_StrictExecutionOrder ==
  \A w \in DOMAIN workers :
    workers[w].phase = "running" =>
      \A id \in DOMAIN jobs :
        jobs[id].data._order < jobs[workers[w].job].data._order => ~Live(id)

\* C10: a delayed retry holds nothing back: whenever a worker is idle and a job
\* waits, that job can be delivered, also when a retry of lower order is
\* still delayed.
C10_DelayedRetryHoldsNothingBack ==
  \A w \in DOMAIN workers :
    (/\ workers[w].phase = "idle"
     /\ waitList # << >>
     /\ \E d \in Delayed \cap Retries :
          jobs[d].data._order < jobs[Head(waitList)].data._order)
      => ENABLED (\E t \in Timestamps : Deliver(w, t))

C10_Witness ==
  \E d \in Delayed \cap Retries, c \in DOMAIN jobs :
    /\ jobs[c].status = "completed"
    /\ jobs[d].data._order < jobs[c].data._order
    /\ \A id \in Lineage(RootOf(d)) : jobs[id].status # "completed"

\* the handler invocations in progress
Running == {w \in DOMAIN workers : workers[w].phase = "running"}

\* C11: at most one handler invocation is in progress at any moment, also after
\* start() was called more than once.
C11_OneHandlerAtATime == Cardinality(Running) <= 1

\* no delivery has failed so far, with or without a handler
NoFailureYet ==
  /\ \A id \in DOMAIN jobs : jobs[id].status # "failed"
  /\ Retries = {}
  /\ \A w \in DOMAIN workers : workers[w].phase \in {"idle", "running"}

\* the step in which worker w invokes a handler
InvokesHandler(w) ==
  /\ workers[w].phase = "idle"
  /\ workers'[w].phase = "running"

C12_Step(w) ==
  (InvokesHandler(w) /\ NoFailureYet) =>
    LET order == jobs[workers'[w].job].data._order IN
    /\ \A id \in DOMAIN jobs :
         jobs[id].data._order < order => jobs[id].status \in {"active", "completed"}
    /\ \A k \in DOMAIN calls : calls[k].order < order => calls[k].state # "pending"

C13_Methods ==
  {"addJob", "start", "pause", "resume", "getOrderedJobCounts", "getJob", "getJobs"}

\* nothing has reached the backend or the scheduler's bookkeeping
Untouched ==
  /\ currentOrder = 0
  /\ DOMAIN processingOrder = {}
  /\ DOMAIN jobs = {}
  /\ waitList = << >>
  /\ jobCounter = 0
  /\ ~paused
  /\ calls = << >>
  /\ workers = << >>

C13_Step ==
  (~isInitialized /\ api' # api /\ api'.op \in C13_Methods) =>
    /\ api' = Thrown(api'.op, NotInitializedError)
    /\ UNCHANGED <<currentOrder, processingOrder, calls, workers, backend>>

\* C13: until initialize() has succeeded, a call of addJob, start, pause, resume,
\* getOrderedJobCounts, getJob or getJobs throws 'Queue not initialized', sends
\* nothing to the backend and leaves the order counter and the Order Index as
\* they were, also after an initialize() that failed half-way.
C13_GuardedBeforeInitialize ==
  /\ [](~isInitialized => Untouched)
  /\ [][C13_Step]_vars

C13_Witness ==
  /\ ~isInitialized
  /\ queue = "open"
  /\ api = Thrown("pause", NotInitializedError)

C14_Step(k) ==
  /\ (calls[k].state = "pending" /\ calls'[k].state = "rejected") =>
       UNCHANGED <<processingOrder, backend>>
  /\ calls[k].state = "rejected" => calls'[k].state = "rejected"

\* the order of call k is nowhere in the backend nor in the Order Index
NeverEnqueued(k) ==
  /\ \A id \in DOMAIN jobs : jobs[id].data._order # calls[k].order
  /\ \A id \in DOMAIN processingOrder : processingOrder[id] # calls[k].order

\* C14: when the backend rejects the queue.add of an addJob call, the call ends
\* rejected for good, its envelope is never enqueued by a second attempt and
\* the Order Index gets no entry for it.
C14_RejectionPropagates ==
  /\ [](\A k \in Rejected : NeverEnqueued(k))
  /\ [][\A k \in DOMAIN calls : C14_Step(k)]_vars

C14_Witness ==
  /\ Rejected # {}
  /\ Returned # {}
  /\ \E id \in DOMAIN jobs : jobs[id].status = "completed"

\* the step in which worker w is handed a job whose name has no processor
NoProcessorDelivery(w) ==
  /\ workers[w].phase = "idle"
  /\ workers'[w].phase # "idle"
  /\ jobs[workers'[w].job].name \notin DOMAIN processors

\* C15 as claimed: a delivery without a registered handler is terminal, no retry
\* is scheduled for it whatever its retryCount and maxRetries.
C15_NoProcessorIsTerminal ==
  [][\A w \in DOMAIN workers : NoProcessorDelivery(w) => workers'[w].phase = "rethrow"]_vars

C15_Step(w) ==
  NoProcessorDelivery(w) =>
    LET job == jobs[workers'[w].job]
        budget == IF job.data._maxRetries = 0 THEN maxRetries ELSE job.data._maxRetries
    IN /\ workers'[w].handler = ""
       /\ job.data._retryCount < budget =>
            /\ workers'[w].phase = "retryAdd"
            /\ workers'[w].req.name = job.name
            /\ workers'[w].req.data._previousJobId = job.id
       /\ job.data._retryCount >= budget => workers'[w].phase = "rethrow"

\* C15 as amended: a delivery without a registered handler invokes no handler and
\* is handled as a failed delivery by handleJobFailure: a retry is scheduled for
\* it unless handleJobFailure finds the retry budget used up, and only then is
\* the failure terminal.
C15_NoProcessorIsRetried == [][\A w \in DOMAIN workers : C15_Step(w)]_vars

C15_Witness ==
  /\ DOMAIN processors = {}
  /\ \E id \in Retries : jobs[id].data._retryCount = 2 /\ jobs[id].status = "failed"
  /\ \E w \in DOMAIN workers : workers[w].phase = "retryAdd"

\* C16: a delivery without a registered handler is accounted like a handler
\* failure against the budget of its lineage: a retry with retryCount + 1 is
\* sent while retryCount < maxRetries, and the delivery with retryCount =
\* maxRetries leaves the lineage failed for good.
C16_NoProcessorConsumesBudget ==
  [][\A w \in DOMAIN workers :
       NoProcessorDelivery(w) =>
         LET job == jobs[workers'[w].job] IN
         /\ job.data._retryCount < job.data._maxRetries =>
              /\ workers'[w].phase = "retryAdd"
              /\ workers'[w].req.data._retryCount = job.data._retryCount + 1
              /\ workers'[w].req.data._maxRetries = job.data._maxRetries
         /\ job.data._retryCount >= job.data._maxRetries =>
              workers'[w].phase = "rethrow"]_vars

SingleAttempt(opts) == opts.attempts = 1 /\ opts.backoff = FALSE

\* C17: every envelope addJob and handleJobFailure send or have enqueued is
\* single-attempt (attempts 1, backoff false), whatever options the caller
\* passed; the backend delivers no attempt a second time, so a job that waits
\* or is delayed has never been delivered.
C17_SingleAttemptEnvelopes ==
  /\ \A k \in DOMAIN calls : SingleAttempt(calls[k].opts)
  /\ \A w \in DOMAIN workers :
       workers[w].phase = "retryAdd" => SingleAttempt(workers[w].req.opts)
  /\ \A id \in DOMAIN jobs :
       /\ SingleAttempt(jobs[id].opts)
       /\ jobs[id].attemptsMade <= 1
       /\ jobs[id].status \in {"waiting", "delayed"} => jobs[id].attemptsMade = 0

C17_Witness ==
  \E k \in Returned :
    /\ "attempts" \in DOMAIN calls[k].options
    /\ calls[k].options.attempts > 1
    /\ calls[k].options.backoff
    /\ jobs[calls[k].id].status = "failed"
    /\ \E r \in Retries : jobs[r].data._previousJobId = calls[k].id

\* the list is in ascending order of its entries' order
Ascending(q) == \A i, j \in 1 .. Len(q) : i < j => q[i].order <= q[j].order

\* the list has one entry per job of the array the backend returned
OnePerJob(q, backendJobs) ==
  /\ Len(q) = Len(backendJobs)
  /\ \A i \in 1 .. Len(backendJobs) :
       Cardinality({j \in 1 .. Len(q) : q[j].id = backendJobs[i]}) = 1

\* the step in which getOrderedJobCounts returns its result
CountsReturned ==
  /\ api.op = "getOrderedJobCounts"
  /\ api.at = "getJobs.delayed"
  /\ api'.at = "returned"

\* C18: in every result of getOrderedJobCounts, orderedWaiting and
\* orderedDelayed are in ascending order, in whatever order the backend
\* returned the jobs, and hold one entry per job the backend returned for that
\* status.
C18_OrderedListsSorted ==
  [][CountsReturned =>
       /\ Ascending(api'.value.orderedWaiting)
       /\ Ascending(api'.value.orderedDelayed)
       /\ OnePerJob(api'.value.orderedWaiting, api.value.waitingJobs)
       /\ \E ds \in BackendGetJobs("delayed") :
            OnePerJob(api'.value.orderedDelayed, ds)]_vars

C18_Witness ==
  /\ api.op = "getOrderedJobCounts"
  /\ api.at = "returned"
  /\ Len(api.value.orderedDelayed) = 2
  /\ api.value.orderedDelayed[1].order < api.value.orderedDelayed[2].order
  /\ api.value.delayed = 2

\* the final result of getOrderedJobCounts in the six-task example
FinalCounts ==
  /\ api.op = "getOrderedJobCounts"
  /\ api.at = "returned"

\* the lineage of call k, as the backend holds it
LineageOfCall(k) == Lineage(calls[k].id)

\* C19 as claimed: in the six-task example the final counts show completed = 6,
\* failed = 0 and totalOrder = 6.
C19_ScenarioNoFailedCount ==
  FinalCounts =>
    /\ api.value.completed = Len(ScenarioTasks)
    /\ api.value.failed = 0
    /\ api.value.totalOrder = Len(ScenarioTasks)

\* C19 as amended: the tasks of orders 0, 2, 4, 5 complete on their first delivery,
\* those of orders 1 and 3 get exactly one delayed resubmission with their own
\* order, which completes, and the final counts show completed = 6, failed = 2
\* (the two failed first attempts stay failed jobs in the backend) and
\* totalOrder = 6.
C19_ScenarioCounts ==
  /\ \A id \in DOMAIN jobs : jobs[id].data._retryCount <= 1
  /\ \A id \in Retries :
       /\ jobs[id].data._order \in {1, 3}
       /\ jobs[id].data._order = jobs[RootOf(id)].data._order
       /\ jobs[id].opts.delay = DemoRetryDelay
       /\ jobs[id].status # "failed"
  /\ ScenarioDone =>
       \A k \in DOMAIN calls :
         /\ calls[k].order = k - 1
         /\ IF calls[k].order \in {1, 3}
              THEN /\ Cardinality(LineageOfCall(k)) = 2
                   /\ jobs[calls[k].id].status = "failed"
                   /\ \E r \in LineageOfCall(k) \cap Retries : jobs[r].status = "completed"
              ELSE /\ LineageOfCall(k) = {calls[k].id}
                   /\ jobs[calls[k].id].status = "completed"
  /\ FinalCounts =>
       /\ api.value.completed = 6
       /\ api.value.failed = 2
       /\ api.value.totalOrder = 6
       /\ api.value.waiting = 0
       /\ api.value.delayed = 0
       /\ api.value.orderedWaiting = << >>
       /\ api.value.orderedDelayed = << >>

C19_Witness ==
  /\ FinalCounts
  /\ ScenarioDone
  /\ Cardinality(Retries) = 2

\* the step in which cleanupOrderedJobs deletes the entries and returns
CleanupReturns ==
  /\ api.op = "cleanupOrderedJobs"
  /\ api.at = "getJobs.failed"
  /\ api'.at = "returned"

\* the lineage of an attempt has no attempt left that waits, is delayed or is in hand
Terminal(id) == \A a \in Lineage(RootOf(id)) : ~Live(a)

CleanupStep == api' # api /\ api'.op = "cleanupOrderedJobs"

\* the backend's jobs are as they were when the caller made the call before this one
SameBackend == lastCleanup.calls >= 2 /\ lastCleanup.jobs = jobs

\* C21: cleanup is idempotent and touches nothing but the Order Index: a call that
\* returns with the backend's jobs as they were when the call before it was made
\* leaves the Order Index that call left, and no step of a call changes the
\* backend's jobs, wait list, id counter or pause state, the order counter, the
\* retry configuration or the handler registry.
C21_CleanupIdempotent ==
  /\ [][(CleanupReturns /\ SameBackend) => processingOrder' = lastCleanup.index]_vars
  /\ [][CleanupStep => UNCHANGED <<jobs, waitList, jobCounter, paused, currentOrder,
                                    maxRetries, retryDelay, processors>>]_vars

C21_Witness ==
  /\ api = ReturnedValue("cleanupOrderedJobs", NoValue)
  /\ lastCleanup.calls = 2
  /\ lastCleanup.jobsBefore = jobs
  /\ lastCleanup.indexBefore = processingOrder
  /\ \E id \in DOMAIN jobs : jobs[id].status = "completed" /\ id \notin DOMAIN processingOrder
  /\ \E id \in DOMAIN jobs : jobs[id].status = "failed" /\ id \notin DOMAIN processingOrder
  /\ \E id \in DOMAIN processingOrder : jobs[id].status = "delayed"
\* the last attempt of a lineage
LastAttempt(root) ==
  CHOOSE id \in Lineage(root) :
    \A a \in Lineage(root) : jobs[a].data._retryCount <= jobs[id].data._retryCount

\* the lineage has come to an end without a completed attempt
EndedUncompleted(root) ==
  \A id \in Lineage(root) : ~Live(id) /\ jobs[id].status # "completed"

\* the step in which worker w is done with a failed delivery
FailureDone(w) ==
  /\ workers[w].phase \in {"retryAdd", "retryAdded", "rethrow"}
  /\ workers'[w].phase = "idle"

C22_Step(w) ==
  /\ FailureDone(w) =>
       /\ workers[w].phase # "retryAdd"
       /\ jobs'[workers[w].job].status = "failed"
  /\ (workers[w].phase = "running" /\ workers'[w].phase = "idle") =>
       jobs'[workers[w].job].status = "completed"

\* C22: no lineage stops silently: a worker lets go of a failed delivery only by
\* reporting it failed to the backend, whether the budget was used up or the
\* retry was rejected; a failed job stays a failed job of the backend; so the
\* last attempt of every lineage that ended without completing is failed, and
\* the failed count getOrderedJobCounts returns is the backend's count of failed
\* jobs, which covers every such lineage.
C22_NoSilentStop ==
  /\ [][\A w \in DOMAIN workers : C22_Step(w)]_vars
  /\ [][\A id \in DOMAIN jobs :
          jobs[id].status = "failed" => id \in DOMAIN jobs' /\ jobs'[id].status = "failed"]_vars
  /\ [](\A id \in DOMAIN jobs :
          jobs[id].status = "active" => \E w \in DOMAIN workers : workers[w].job = id)
  /\ [](\A root \in Originals :
          EndedUncompleted(root) => jobs[LastAttempt(root)].status = "failed")
  /\ [][(api.at = "getJobCounts" /\ api'.at = "getJobs.waiting") =>
          /\ api'.value.jobCounts.failed = Cardinality(WithStatus("failed"))
          /\ api'.value.jobCounts.failed >=
               Cardinality({root \in Originals : EndedUncompleted(root)})]_vars
  /\ [][CountsReturned => api'.value.failed = api.value.jobCounts.failed]_vars

C22_Witness ==
  /\ api.op = "getOrderedJobCounts"
  /\ api.at = "returned"
  /\ api.value.failed >= 3
  /\ \E root \in Originals :
       /\ EndedUncompleted(root)
       /\ jobs[LastAttempt(root)].data._retryCount < jobs[LastAttempt(root)].data._maxRetries
  /\ \E root \in Originals :
       /\ EndedUncompleted(root)
       /\ jobs[LastAttempt(root)].data._retryCount = 1
       /\ jobs[LastAttempt(root)].data._maxRetries = 1
\* the backend holds job id for delivery
Queued(id) == id \in DOMAIN jobs /\ jobs[id].status \in {"waiting", "delayed"}

\* job id was handed to a worker
Delivered(id) == id \in DOMAIN jobs /\ jobs[id].status \in {"active", "completed", "failed"}

\* resume() has returned on a started scheduler
Resumed == api = ReturnedValue("resume", NoValue) /\ workers # << >>

C23_Step ==
  paused =>
    /\ \A w \in DOMAIN workers : workers[w].phase = "idle" => workers'[w].phase = "idle"
    /\ \A id \in DOMAIN jobs :
         Queued(id) =>
           /\ id \in DOMAIN jobs'
           /\ jobs'[id].status \in {"waiting", "delayed"}
           /\ jobs'[id].data = jobs[id].data
           /\ jobs'[id].status = "waiting" <=> id \in Range(waitList')

\* C23: from the moment pause() has completed until resume() completes, no idle
\* worker is handed a job (no handler is newly invoked) and every waiting or
\* delayed job stays a waiting or delayed job with its data; once resume() has
\* returned on a started scheduler whose processor calls settle, every job that
\* waits or is delayed, those held back during the pause included, is
\* eventually delivered.
C23_PauseHoldsResumeDelivers ==
  /\ [][C23_Step]_vars
  /\ \A id \in JobIds : (Resumed /\ Queued(id)) ~> Delivered(id)

C23_Witness ==
  /\ api = ReturnedValue("pause", NoValue)
  /\ paused
  /\ \E w \in DOMAIN workers : workers[w].phase = "idle"
  /\ waitList # << >>
  /\ Delayed # {}
\* close() has been called
CloseBegun == api.op = "close"

\* this.worker has been closed, if there is one
WorkerReleased == workers = << >> \/ workers[Len(workers)].phase = "closed"

\* C24: close() releases the worker, then the delay scheduler, then the queue,
\* and once close() has begun no worker this scheduler created is handed a job
\* (no handler is newly invoked), also after more than one start().
C24_CloseStopsHandlers ==
  /\ [](queueScheduler = "closed" => WorkerReleased)
  /\ [](queue = "closed" => queueScheduler = "closed")
  /\ [][CloseBegun => \A w \in DOMAIN workers : ~InvokesHandler(w)]_vars
\* the addJob call the lineage of job id began with
CallOf(id) == CHOOSE k \in Returned : calls[k].id = RootOf(id)

\* C25: whenever a handler runs, on a first delivery or on a retry, its first
\* argument is the payload the lineage's addJob call was given, key for key: no
\* metadata is added to it and the payload's own keys named _order, _retryCount
\* or _maxRetries keep the caller's values.
C25_HandlerGetsPayload ==
  \A w \in DOMAIN workers :
    workers[w].phase = "running" =>
      /\ workers[w].args = calls[CallOf(workers[w].job)].payload
      /\ DOMAIN workers[w].args = DOMAIN calls[CallOf(workers[w].job)].payload

C25_Witness ==
  \E w \in DOMAIN workers :
    /\ workers[w].phase = "running"
    /\ jobs[workers[w].job].data._retryCount = 1
    /\ jobs[workers[w].job].data._order = 1
    /\ "_order" \in DOMAIN workers[w].args
    /\ workers[w].args._order = 7
    /\ workers[w].args._retryCount = 2
\* C26: cleanupOrderedJobs called before initialize() has succeeded throws the
\* not-initialized error to its caller, like the guarded methods.
C26_CleanupGuarded ==
  [][(~isInitialized /\ CleanupStep) =>
       api' = Thrown("cleanupOrderedJobs", NotInitializedError)]_vars
\* C27: the orders of the lineages the backend accepted have no gaps: once every
\* addJob call has returned or was rejected, the accepted lineages carry exactly
\* the orders 0..n-1 for n accepted lineages, and totalOrder in the result of
\* getOrderedJobCounts is n.
C27_NoGapsAmongAccepted ==
  /\ [](Pending = {} =>
          {jobs[id].data._order : id \in Originals} = 0 .. Cardinality(Returned) - 1)
  /\ [][(CountsReturned /\ Pending = {}) =>
          api'.value.totalOrder = Cardinality(Returned)]_vars
\* the step in which the processor call of worker w succeeds
Succeeds(w) ==
  /\ workers[w].phase = "running"
  /\ workers'[w].phase = "idle"

C28_Step(w) ==
  Succeeds(w) =>
    /\ jobs'[workers[w].job].status = "completed"
    /\ jobs'[workers[w].job].returnvalue =
         ProcessorResult(workers[w].handler, workers[w].args)
    /\ DOMAIN jobs' = DOMAIN jobs
    /\ \A id \in DOMAIN jobs \ {workers[w].job} : jobs'[id] = jobs[id]
    /\ workers'[w].req = NoReq
    /\ UNCHANGED <<processingOrder, waitList, jobCounter, currentOrder>>

\* the attempts of a lineage other than id are earlier ones that did not complete
LastOfLineage(id) ==
  \A a \in Lineage(RootOf(id)) \ {id} :
    /\ jobs[a].data._retryCount < jobs[id].data._retryCount
    /\ jobs[a].status # "completed"

InHand(w) == workers[w].phase \in {"running", "retryAdd", "retryAdded", "rethrow"}

\* the step in which worker w reports its failed delivery to the backend
ReportsFailed(w) ==
  /\ workers[w].phase \in {"retryAdded", "rethrow"}
  /\ workers'[w].phase = "idle"

\* the retry of a failed job, if one was enqueued
RetriesOf(id) == {r \in Retries : jobs[r].data._previousJobId = id}

C29_Step(w) ==
  /\ (workers[w].phase = "running" /\ workers'[w].phase \in {"retryAdd", "rethrow"}) =>
       /\ workers'[w].error = HandlerError
       /\ jobs' = jobs
  /\ (workers[w].phase = "retryAdd" /\ workers'[w].phase \in {"retryAdded", "rethrow"}) =>
       /\ workers'[w].error = workers[w].error
       /\ jobs'[workers[w].job].status = "active"
       /\ workers'[w].phase = "retryAdded" <=>
            \E r \in DOMAIN jobs' :
              /\ "_previousJobId" \in DOMAIN jobs'[r].data
              /\ jobs'[r].data._previousJobId = workers[w].job
  /\ ReportsFailed(w) =>
       /\ jobs[workers[w].job].status = "active"
       /\ jobs'[workers[w].job].status = "failed"
       /\ jobs'[workers[w].job].failedReason = workers[w].error
       /\ DOMAIN jobs' = DOMAIN jobs
       /\ workers[w].phase = "retryAdded" <=> RetriesOf(workers[w].job) # {}

\* C29: on a handler failure the retry decision comes first and the report to
\* the backend second: the job stays active while handleJobFailure decides and
\* enqueues, a retry that is enqueued is in the backend before the failed job
\* is reported failed, and the job is reported failed with the error the
\* handler threw, whether the retry was enqueued, was not due or was rejected.
C29_RetryThenReport ==
  /\ [][\A w \in DOMAIN workers : C29_Step(w)]_vars
  /\ [](\A w \in DOMAIN workers : InHand(w) => jobs[workers[w].job].status = "active")
  /\ [](\A id \in DOMAIN jobs :
          jobs[id].status = "failed" =>
            jobs[id].failedReason \in {HandlerError, NoProcessorError(jobs[id].name)})

C29_Witness ==
  /\ \E id \in DOMAIN jobs :
       /\ jobs[id].status = "failed" /\ jobs[id].failedReason = HandlerError
       /\ RetriesOf(id) # {}
  /\ \E id \in DOMAIN jobs :
       /\ jobs[id].status = "failed" /\ jobs[id].failedReason = HandlerError
       /\ jobs[id].data._retryCount >= jobs[id].data._maxRetries
       /\ jobs[id].data._maxRetries > 0
  /\ \E id \in DOMAIN jobs :
       /\ jobs[id].status = "failed" /\ jobs[id].failedReason = HandlerError
       /\ jobs[id].data._retryCount < jobs[id].data._maxRetries
       /\ RetriesOf(id) = {}
\* C30: a backend error met while the retry is enqueued is not swallowed: a
\* failed attempt that had budget left (retryCount < maxRetries) and got no
\* retry carries the backend's error in its failure record.
C30_RetryErrorPropagates ==
  \A id \in DOMAIN jobs :
    (/\ jobs[id].status = "failed"
     /\ jobs[id].data._retryCount < jobs[id].data._maxRetries
     /\ RetriesOf(id) = {})
      => jobs[id].failedReason = RetryError

\* the step in which a processor is called for a job delivered to worker w
CallsProcessor(w) ==
  /\ w \in DOMAIN workers
  /\ workers[w].phase = "idle"
  /\ workers'[w].phase = "running"

\* the step changes the handler registry
Registers == processors' # processors

\* C31: the handler called for a delivery is the one the registry holds for the job's
\* name at the moment of the delivery, whether it was registered before or after
\* start() and before or after an earlier attempt of the lineage; a registration,
\* also one for a name that has a handler, sets the handler of that name, leaves the
\* other names alone and changes nothing else.
C31_LastRegistrationWins ==
  /\ [][\A w \in DOMAIN workers' :
          CallsProcessor(w) =>
            /\ jobs'[workers'[w].job].name \in DOMAIN processors
            /\ workers'[w].handler = processors[jobs'[workers'[w].job].name]]_vars
  /\ [][Registers =>
          /\ \E n \in JobNames, h \in ReplacingHandlers :
               /\ processors'[n] = h
               /\ DOMAIN processors' = DOMAIN processors \cup {n}
               /\ \A m \in DOMAIN processors \ {n} : processors'[m] = processors[m]
          /\ UNCHANGED <<isInitialized, queue, queueScheduler, maxRetries, retryDelay,
                         currentOrder, processingOrder, calls, workers, backend, api>>]_vars

\* a retry is being handled by h2 after h1 completed an earlier job: the name was
\* registered again after start() and before the retry was delivered
C31_Witness ==
  /\ \E id \in DOMAIN jobs :
       /\ jobs[id].status = "completed"
       /\ jobs[id].returnvalue.by = "h1"
  /\ \E w \in DOMAIN workers :
       /\ workers[w].phase = "running"
       /\ workers[w].handler = "h2"
       /\ jobs[workers[w].job].data._retryCount = 1

\* the lineages of the simulation that have a retry scheduled and not yet queued
SimPendingRetries == {r.data._order : r \in simulation.timers}

\* getStats() reports nothing waiting, nothing delayed and nothing in hand: the
\* condition on which the example prints that all tasks are completed
SimStatsIdle ==
  LET stats == SimGetStats(simulation)
  IN stats.waiting = 0 /\ stats.delayed = 0 /\ ~stats.isProcessing

\* C32: in the simulation a retry that is scheduled and waits out its delay is
\* counted in getStats().delayed and listed in orderedDelayed, so that stats with
\* waiting = 0, delayed = 0 and isProcessing = false mean that no lineage has a
\* retry pending.
C32_StatsCountPendingRetries ==
  LET stats == SimGetStats(simulation)
  IN /\ stats.delayed = Cardinality(simulation.timers)
     /\ {e.order : e \in Range(stats.orderedDelayed)} = SimPendingRetries
     /\ SimStatsIdle => SimPendingRetries = {}

\* every attempt of the lineage has been completed or reported failed
Settled(root) == \A a \in Lineage(root) : jobs[a].status \in {"completed", "failed"}

\* the lineage has an attempt that is completed, or failed with its retry count at
\* the lineage's budget
TerminalState(root) ==
  \E a \in Lineage(root) :
    \/ jobs[a].status = "completed"
    \/ jobs[a].status = "failed" /\ jobs[a].data._retryCount = Budget(root)

\* C33: with the scheduler running, a backend that delivers every ready job and
\* handlers that return or throw, every submitted lineage comes to a terminal state
\* (one attempt completed, or the attempt with retryCount = maxRetries failed), and
\* from then on the backend holds no waiting, delayed or active attempt of it: a
\* lineage with nothing left to deliver is in a terminal state, and a lineage in a
\* terminal state has nothing left to deliver.
C33_LineagesTerminate ==
  \A root \in Originals :
    /\ Settled(root) => TerminalState(root)
    /\ TerminalState(root) => \A a \in Lineage(root) : ~Live(a)

\* the failed delivery of attempt id is not yet reported: a worker is between the
\* failure of its handler and the rethrow
FailureUnreported(id) ==
  \E w \in DOMAIN workers :
    workers[w].job = id /\ workers[w].phase \in {"retryAdd", "retryAdded", "rethrow"}

\* the attempts of the lineage the backend holds, leaving out one whose failure is
\* being handled
LiveAttempts(root) == {a \in Lineage(root) : Live(a) /\ ~FailureUnreported(a)}

\* C34: each lineage has at most one attempt that is waiting, delayed or active once
\* the failed delivery has been reported, and one attempt never has more than one
\* retry envelope, also when the backend delivers a stalled attempt again.
C34_OneLiveAttemptPerLineage ==
  /\ \A root \in Originals : Cardinality(LiveAttempts(root)) <= 1
  /\ \A id \in DOMAIN jobs : Cardinality(RetriesOf(id)) <= 1

\* the orders of the lineages the backend still holds an attempt of
HeldOrders == {jobs[a].data._order : a \in {id \in DOMAIN jobs : Live(id)}}

\* C35: after a restart of the scheduler's process on a backend that still holds
\* jobs, the retries of the surviving lineages carry the order of their lineage, and
\* the order addJob gives a new job differs from the order of every lineage the
\* backend still holds.
C35_OrdersSurviveRestart ==
  /\ [](\A id \in Retries : jobs[id].data._order = jobs[RootOf(id)].data._order)
  /\ [][\A id \in DOMAIN jobs' \ DOMAIN jobs :
          "_previousJobId" \notin DOMAIN jobs'[id].data =>
            jobs'[id].data._order \notin HeldOrders]_vars

\* close() has completed: the queue, the last resource it closes, is closed
Closed == queue = "closed"

\* the step is the call of one of the methods that begin with the guard
CallsGuarded ==
  /\ ApiFree
  /\ api' # api
  /\ api'.op \in {"pause", "resume", "getOrderedJobCounts"}

\* C37: after close() has completed, addJob, start, pause, resume and
\* getOrderedJobCounts are rejected by the isInitialized guard and nothing is handed
\* to the closed backend (no queue.add is sent, no Worker is created), and a further
\* close() returns without calling close on the worker, the scheduler or the queue
\* again.
C37_ClosedRejectsCalls ==
  [][Closed =>
       /\ CallsGuarded => api' = Thrown(api'.op, NotInitializedError)
       /\ calls' = calls
       /\ Len(workers') = Len(workers)
       /\ (ApiFree /\ api'.op = "close" /\ api' # api) =>
            api' = ReturnedValue("close", NoValue)]_vars

\* the step in which processNext takes a job
SimTakes == simulation'.job # NoValue /\ simulation'.job # simulation.job

SimOrders(q) == {q[i].data._order : i \in 1 .. Len(q)}

\* the ids of the jobs in the queue, in a timer and in hand
SimHeld(s) ==
  {s.queue[i].id : i \in 1 .. Len(s.queue)} \cup {r.id : r \in s.timers}
    \cup (IF s.job = NoValue THEN {} ELSE {s.job.id})

\* C38: whenever processNext of the simulation takes a job, it is one of the lowest
\* order among the jobs in the queue at that moment, so a retry that is back in the
\* queue goes before every queued job of higher order; a retry in its delay is not
\* in the queue and holds no job back.
C38_LowestOrderFirst ==
  /\ [][SimTakes =>
          /\ \A o \in SimOrders(simulation'.queue) : simulation'.job.data._order <= o
          /\ simulation'.job.status = "waiting"
          /\ simulation'.job.id \notin {r.id : r \in simulation'.timers}]_vars
  /\ [](simulation.job # NoValue <=> simulation.isProcessing)

\* a retry of order 0 is in hand, taken from a queue in which a job of a higher
\* order, which is still there, stood before it, after a job of a higher order was
\* handled during the retry's delay
C38_Witness ==
  /\ simulation.job # NoValue
  /\ simulation.job.data._order = 0
  /\ simulation.job.data._retryCount = 1
  /\ simulation.queue # << >>
  /\ simulation.queue[1].data._order = 2
  /\ simulation.queue[1].data._retryCount = 0
  /\ <<2>> \notin SimHeld(simulation)

\* job id is in the simulation's queue
SimQueued(id) == \E i \in 1 .. Len(simulation.queue) : simulation.queue[i].id = id

\* processNext has job id in hand
SimInHand(id) == simulation.job # NoValue /\ simulation.job.id = id

\* C39: in the simulation, whatever the interleaving of addJob calls, retry timers
\* and handler completions, at most one handler invocation is in progress at a time,
\* and it is in progress only while isProcessing is set; no wakeup is lost: while a
\* job is in the queue a processNext is in progress, and every job that enters the
\* queue is eventually taken by processNext.
C39_OneAtATimeNoLostWakeup ==
  /\ [](simulation.invocations <= 1)
  /\ [](simulation.invocations = 1 <=> simulation.at = "processor")
  /\ [](simulation.at # "idle" <=> simulation.isProcessing)
  /\ [](simulation.queue # << >> => simulation.isProcessing)
  /\ \A id \in SimJobIds : SimQueued(id) ~> SimInHand(id)

\* a handler is running for one job while an added job and a retry whose timer has
\* fired wait in the queue
C39_Witness ==
  /\ simulation.at = "processor"
  /\ Len(simulation.queue) = 2
  /\ \E i, j \in 1 .. 2 :
       /\ simulation.queue[i].data._retryCount = 0
       /\ simulation.queue[j].data._retryCount = 1

\* a handler invocation of the OrderedJobWorker is in progress
JwHandling == jobWorker.at = "processor"

\* C40: in OrderedJobWorker, isCurrentlyProcessing() and getStats().isProcessing are
\* true exactly while a handler invocation is in progress, and getCurrentJob() and
\* getStats().currentJob identify the job being handled during that time and are
\* null otherwise.
C40_ProcessingFlagsFollowHandler ==
  /\ JwIsCurrentlyProcessing(jobWorker) <=> JwHandling
  /\ jobWorker.worker # "null" => (JwGetStats(jobWorker).isProcessing <=> JwHandling)
  /\ IF JwHandling
       THEN /\ JwGetCurrentJob(jobWorker) # NoValue
            /\ JwGetCurrentJob(jobWorker).id = jobWorker.job
            /\ JwGetStats(jobWorker).currentJob.id = jobWorker.job
       ELSE /\ JwGetCurrentJob(jobWorker) = NoValue
            /\ jobWorker.worker # "null" => JwGetStats(jobWorker).currentJob = NoValue
====
